---- MODULE Spec2Model ----
(***************************************************************************)
(* Model of the per-tenant crawl pipeline of lala-agent:                   *)
(*   services/queue_processor.rs  (scheduler loop, pipeline stages,        *)
(*                                 failure classification, link discovery) *)
(*   services/crawler.rs          (fetcher: robots.txt + GET)              *)
(*   services/db.rs               (keyspace-scoped tables)                 *)
(*   app.rs                       (POST /queue/add)                        *)
(*                                                                         *)
(* Every await on the database, the network, the object store or the      *)
(* search index is one step of a worker; the code that runs between two    *)
(* awaits belongs to the step of the await before it.                      *)
(*                                                                         *)
(* Time is counted in minutes (the unit of the retry backoff).             *)
(* Strings that the code inspects character by character (robots           *)
(* directives, rel attributes) are sequences of one-character strings.     *)
(* A URL string is a record [scheme, host, path]; scheme = "" stands for a *)
(* string that url::Url::parse rejects, host = "" for a URL without host.  *)
(* Option<T> is <<>> (None) or <<x>> (Some(x)).                            *)
(***************************************************************************)
EXTENDS Integers, Sequences, FiniteSets, TLC

----------------------------------------------------------------------------
(* Bounds of the model *)

MaxTime == 1

MaxAdds == 1

MaxLeases == 1

----------------------------------------------------------------------------
(* Program constants *)

MAX_RETRY_ATTEMPTS == 5

crawl_frequency_hours == 24

----------------------------------------------------------------------------
(* Option *)

None == <<>>

Some(x) == <<x>>

IsSome(o) == o # <<>>

Unwrap(o) == o[1]

----------------------------------------------------------------------------
(* Character strings *)

LowerOf ==
  [c \in {"N", "O", "I", "D", "E", "X", "F", "L", "W", "R", "B", "T", "S"} |->
     CASE c = "N" -> "n" [] c = "O" -> "o" [] c = "I" -> "i" [] c = "D" -> "d"
       [] c = "E" -> "e" [] c = "X" -> "x" [] c = "F" -> "f" [] c = "L" -> "l"
       [] c = "W" -> "w" [] c = "R" -> "r" [] c = "B" -> "b" [] c = "T" -> "t"
       [] c = "S" -> "s"]

to_lowercase(s) ==
  [i \in 1..Len(s) |-> IF s[i] \in DOMAIN LowerOf THEN LowerOf[s[i]] ELSE s[i]]

contains(s, pat) ==
  \E i \in 1..(Len(s) - Len(pat) + 1) : SubSeq(s, i, i + Len(pat) - 1) = pat

S_noindex == <<"n", "o", "i", "n", "d", "e", "x">>

S_nofollow == <<"n", "o", "f", "o", "l", "l", "o", "w">>

S_none == <<"n", "o", "n", "e">>

S_NOFOLLOW_upper == <<"N", "O", "F", "O", "L", "L", "O", "W">>

S_index_follow == <<"i", "n", "d", "e", "x", ",", " ", "f", "o", "l", "l", "o", "w">>

S_noindex_nofollow == S_noindex \o <<",", " ">> \o S_nofollow

S_robots == <<"r", "o", "b", "o", "t", "s">>

S_ROBOTS_upper == <<"R", "O", "B", "O", "T", "S">>

S_description == <<"d", "e", "s", "c">>

eq_ignore_ascii_case(a, b) == to_lowercase(a) = to_lowercase(b)

----------------------------------------------------------------------------
(* Robots directives (queue_processor.rs) *)

RobotsMetaDirectives(ni, nf) == [noindex |-> ni, nofollow |-> nf]

DefaultDirectives == RobotsMetaDirectives(FALSE, FALSE)

(* A merge in which the header overrides the meta tag *)
merge_other_wins(self, other) == other

merge(self, other) ==
  RobotsMetaDirectives(self.noindex \/ other.noindex,
                       self.nofollow \/ other.nofollow)

parse_robots_directive_string(content) ==
  LET content_lower == to_lowercase(content) IN
  IF contains(content_lower, S_none)
    THEN RobotsMetaDirectives(TRUE, TRUE)
    ELSE RobotsMetaDirectives(contains(content_lower, S_noindex),
                              contains(content_lower, S_nofollow))

parse_x_robots_tag(header_value) ==
  IF IsSome(header_value)
    THEN parse_robots_directive_string(Unwrap(header_value))
    ELSE DefaultDirectives

(* The document is the parsed HTML: html.metas is the sequence of          *)
(* <meta name=... content=...> elements in document order.  The first one  *)
(* whose name equals "robots" (ignoring case) decides; a missing content   *)
(* attribute reads as the empty string.                                    *)
RECURSIVE first_robots_meta(_)
first_robots_meta(metas) ==
  IF metas = <<>> THEN None
  ELSE IF eq_ignore_ascii_case(Head(metas).name, S_robots)
    THEN Some(Head(metas).content)
  ELSE first_robots_meta(Tail(metas))

extract_robots_meta_directives(html) ==
  LET m == first_robots_meta(html.metas) IN
  IF IsSome(m) THEN parse_robots_directive_string(Unwrap(m))
  ELSE DefaultDirectives

get_robots_directives(html, x_robots_tag) ==
  merge(extract_robots_meta_directives(html), parse_x_robots_tag(x_robots_tag))

----------------------------------------------------------------------------
(* URLs (url::Url::parse, Url::host_str, Url::path, Url::join) *)

Url(h, p) == [scheme |-> "http", host |-> h, path |-> p]

UrlA_p == Url("a.test", "/p")

UrlA_q == Url("a.test", "/q")

UrlA_r == Url("a.test", "/r")

UrlB_x == Url("b.test", "/x")

(* "not-a-url": a relative reference, rejected by Url::parse *)
BadUrl == [scheme |-> "", host |-> "", path |-> "not-a-url"]

(* "mailto:x": parses, has no host *)
NoHostUrl == [scheme |-> "mailto", host |-> "", path |-> "x"]

(* href="/q": relative reference with an absolute path *)
RelQ == [scheme |-> "", host |-> "", path |-> "/q"]

(* href="http://[": rejected by Url::parse and by Url::join *)
Unjoinable == [scheme |-> "", host |-> "", path |-> "http://["]

parse_ok(s) == s.scheme # ""

host_str(u) == IF u.host = "" THEN None ELSE Some(u.host)

join_ok(base, href) == href.scheme # "" \/ href # Unjoinable

join(base, href) ==
  IF href.scheme # "" THEN href
  ELSE [scheme |-> base.scheme, host |-> base.host, path |-> href.path]

(* The characters of the strings that URLs and tenant ids are made of *)
Text(s) ==
  CASE s = "http" -> <<"h", "t", "t", "p">>
    [] s = "bhttp" -> <<"b", "h", "t", "t", "p">>
    [] s = "a.test" -> <<"a", ".", "t", "e", "s", "t">>
    [] s = "b.test" -> <<"b", ".", "t", "e", "s", "t">>
    [] s = "seed.test" -> <<"s", "e", "e", "d", ".", "t", "e", "s", "t">>
    [] s = "/p" -> <<"/", "p">>
    [] s = "/q" -> <<"/", "q">>
    [] s = "/r" -> <<"/", "r">>
    [] s = "/x" -> <<"/", "x">>
    [] s = "tenant_a" -> <<"t", "e", "n", "a", "n", "t", "_", "a">>
    [] s = "tenant_b" -> <<"t", "e", "n", "a", "n", "t", "_", "b">>
    [] s = "tenant_ab" -> <<"t", "e", "n", "a", "n", "t", "_", "a", "b">>

(* The String of a URL with a host, as crawl_queue.url holds it *)
url_text(u) == Text(u.scheme) \o <<":", "/", "/">> \o Text(u.host) \o Text(u.path)

(* All link strings in the lexicographic order of their text *)
LinkOrder == <<UrlA_p, UrlA_q, UrlA_r, UrlB_x, Unjoinable, NoHostUrl, BadUrl>>

Range(f) == {f[i] : i \in DOMAIN f}

----------------------------------------------------------------------------
(* HTML documents the web can serve.  A document is what the scraper crate *)
(* parses out of the body: its meta elements and its a[href] elements.     *)

Meta(n, c) == [name |-> n, content |-> c]

Anchor(h, r) == [href |-> h, rel |-> r]

DocPlain ==
  [metas   |-> <<Meta(S_description, S_noindex), Meta(S_robots, S_index_follow)>>,
   anchors |-> <<Anchor(RelQ, None), Anchor(UrlB_x, None),
                 Anchor(UrlA_p, None), Anchor(Unjoinable, None),
                 Anchor(NoHostUrl, None), Anchor(RelQ, None),
                 Anchor(UrlA_r, Some(S_NOFOLLOW_upper))>>]

DocNoindex ==
  [metas   |-> <<Meta(S_ROBOTS_upper, S_noindex)>>,
   anchors |-> <<Anchor(RelQ, None)>>]

DocNofollow ==
  [metas   |-> <<Meta(S_robots, S_NOFOLLOW_upper)>>,
   anchors |-> <<Anchor(RelQ, None)>>]

(* What a site can answer to the GET of a page: the X-Robots-Tag header    *)
(* and the body.                                                           *)
Pages ==
  {[header |-> None, doc |-> DocPlain],
   [header |-> None, doc |-> DocNoindex],
   [header |-> None, doc |-> DocNofollow],
   [header |-> Some(S_nofollow), doc |-> DocPlain],
   [header |-> Some(S_noindex), doc |-> DocPlain],
   [header |-> Some(S_noindex_nofollow), doc |-> DocPlain]}

resolve_url(base_url, href) ==
  IF ~parse_ok(base_url) THEN href
  ELSE IF join_ok(base_url, href) THEN join(base_url, href)
  ELSE href

RECURSIVE collect_links(_, _)
collect_links(anchors, base_url) ==
  IF anchors = <<>> THEN <<>>
  ELSE LET a == Head(anchors)
           rest == collect_links(Tail(anchors), base_url)
       IN IF IsSome(a.rel) /\ contains(to_lowercase(Unwrap(a.rel)), S_nofollow)
            THEN rest
            ELSE <<resolve_url(base_url, a.href)>> \o rest

(* links.sort(); links.dedup() *)
sort_dedup(links) == SelectSeq(LinkOrder, LAMBDA u : u \in Range(links))

extract_links(html, base_url) == sort_dedup(collect_links(html.anchors, base_url))

----------------------------------------------------------------------------
(* Deployment *)

Keyspaces == {"tenant_a", "tenant_b"}

Workers == {"w1", "w2"}

(* QueueProcessor.db_client: the keyspace each scheduler is bound to *)
WorkerKeyspace == [w \in Workers |-> "tenant_a"]

(* Inputs of POST /queue/add: the url and the priority field of the body, *)
(* which may be absent                                                    *)
ApiUrls == {UrlA_p, UrlB_x, BadUrl, NoHostUrl}

ApiPriorities == {None, Some(2)}

(* Rows found in crawl_queue at startup. The clock starts at 0, so rows of  *)
(* an earlier run carry times at or below 0.                               *)
(* SeedNew: a row as POST /queue/add writes it.                            *)
SeedNew ==
  [priority |-> 1, scheduled_at |-> 0, url |-> UrlA_p, domain |-> "a.test",
   last_attempt_at |-> None, attempt_count |-> 0, created_at |-> 0,
   rid |-> 0, origin |-> 0]

(* SeedBad: a row put there with insert_queue_entry, as the integration    *)
(* tests do; its url does not parse.                                       *)
SeedBad ==
  [priority |-> 1, scheduled_at |-> 0, url |-> BadUrl, domain |-> "seed.test",
   last_attempt_at |-> None, attempt_count |-> 0, created_at |-> 0,
   rid |-> -1, origin |-> -1]

(* Retry rows as requeue_with_retry left them: SeedRetry after a first     *)
(* failure at 0 (due at 1), SeedFourth and SeedFifth after the fourth and  *)
(* the fifth failure (due at 0).                                           *)
SeedRetry ==
  [priority |-> 2, scheduled_at |-> 1, url |-> UrlA_p, domain |-> "a.test",
   last_attempt_at |-> Some(0), attempt_count |-> 1, created_at |-> 0,
   rid |-> -2, origin |-> -2]

SeedFourth ==
  [priority |-> 5, scheduled_at |-> 0, url |-> UrlA_p, domain |-> "a.test",
   last_attempt_at |-> Some(-8), attempt_count |-> 4, created_at |-> -15,
   rid |-> -3, origin |-> -3]

SeedFifth ==
  [priority |-> 6, scheduled_at |-> 0, url |-> UrlA_p, domain |-> "a.test",
   last_attempt_at |-> Some(-16), attempt_count |-> 5, created_at |-> -31,
   rid |-> -4, origin |-> -4]

(* SeedOther: the row in the queue of tenant_b, which no scheduler of the  *)
(* model is bound to                                                       *)
SeedOther ==
  [priority |-> 1, scheduled_at |-> 0, url |-> UrlB_x, domain |-> "b.test",
   last_attempt_at |-> None, attempt_count |-> 0, created_at |-> 0,
   rid |-> -5, origin |-> -5]

(* What the robots.txt request and the page request can come back with *)
RobotsBodies == {"", "User-agent: * Disallow: /"}

RobotsResponses ==
  {[kind |-> "network_error", status |-> 0, body |-> ""]}
    \cup [kind : {"response"}, status : {200, 404}, body : RobotsBodies]

PageResponses ==
  {[kind |-> "network_error", status |-> 0, header |-> None, doc |-> None]}
    \cup {[kind |-> "body_error", status |-> 200, header |-> None, doc |-> None]}
    \cup {[kind |-> "response", status |-> st, header |-> p.header,
            doc |-> Some(p.doc)] : st \in {200, 404}, p \in Pages}

----------------------------------------------------------------------------
(* State *)

VARIABLES
  now,              \* Utc::now(), in minutes
  config,           \* process configuration read at startup
  queue,            \* crawl_queue table of each keyspace
  crawled_pages,    \* crawled_pages table of each keyspace
  crawl_errors,     \* crawl_errors table of each keyspace
  crawl_stats,      \* crawl_stats counters of each keyspace
  allowed_domains,  \* allowed_domains table of each keyspace
  settings,         \* settings table of each keyspace (crawling_enabled)
  objects,          \* the object store bucket
  search_index,     \* the search index
  leases,           \* history: the rows (rid) process_next_entry took so far
  api_response,     \* the response of the last POST /queue/add
  pc,               \* where each scheduler is in start/process_next_entry
  ret,              \* what process_next_entry returned
  local,            \* the locals of process_next_entry and its callees
  call,             \* history of the current process_next_entry call
  attempts,         \* history: process_crawl_entry calls per admitted row
  successes,        \* history: process_crawl_entry calls that returned Ok, per URL
  next_rid,         \* history: identity of the next inserted queue row
  adds,             \* history: number of requests served out of the MaxAdds of the model
  sessions,         \* sessions table of the auth keyspace, by session token
  served,           \* history: the last HTTP request and how it was answered
  invocations,      \* history: the calls made on a component and what they returned
  magic_link_tokens, \* magic_link_tokens table of the auth keyspace, by token hash
  verifications     \* where each verify_magic_link request is, and its locals

vars ==
  <<now, config, queue, crawled_pages, crawl_errors, crawl_stats,
    allowed_domains, settings, objects, search_index, leases, api_response,
    pc, ret, local, call, attempts, successes, next_rid, adds, sessions, served, invocations,
    magic_link_tokens, verifications>>

magic_link_vars == <<magic_link_tokens, verifications>>

db_vars == <<queue, crawled_pages, crawl_errors, crawl_stats, allowed_domains, settings>>

Domains == {"a.test", "b.test", "seed.test"}

NoLocal ==
  [entry |-> None, result |-> None, storage_id |-> None, page |-> None,
   links |-> <<>>, failure |-> None, occurred_at |-> None]

(* No session is stored: single-tenant deployments run without the auth service *)
NoSessions == [t \in {} |-> None]

NoMagicLinkTokens == [t \in {} |-> None]

(* The requests of GET /auth/verify/{token} that the model follows *)
Requests == {"v1", "v2"}

IdleVerification ==
  [at |-> "idle", token |-> "", magic_token |-> None, checked_at |-> 0,
   result |-> None, session_hash |-> None]

NoVerifications == [r \in Requests |-> IdleVerification]

NoCall ==
  [entry |-> None, trace |-> <<>>, inserted |-> {}, error_row |-> None,
   retry |-> None, logged |-> <<>>]

(* The deployments the model starts from: the ENVIRONMENT variable, the    *)
(* clients main.rs found configured, the stored crawling_enabled setting   *)
(* and the rows already in the queue of tenant_a.                          *)
Deployment(env, st, sr, setting, rows) ==
  [environment |-> env, has_storage |-> st, has_search |-> sr,
   setting |-> setting, rows |-> rows]

Deployments ==
  {Deployment("prod", TRUE, TRUE, Some("true"), {SeedNew}),
   Deployment("dev", TRUE, FALSE, None, {SeedFourth}),
   Deployment("dev", TRUE, TRUE, None, {SeedFifth}),
   Deployment("dev", TRUE, TRUE, None, {SeedRetry}),
   Deployment("dev", FALSE, FALSE, Some("true"), {SeedBad, SeedNew}),
   Deployment("dev", TRUE, TRUE, Some("false"), {SeedNew}),
   Deployment("prod", TRUE, TRUE, Some("true"), {}),
   Deployment("prod", TRUE, TRUE, None, {})}

Init ==
  /\ now = 0
  /\ \E d \in Deployments :
       /\ config = [environment |-> d.environment, has_storage |-> d.has_storage,
                    has_search |-> d.has_search]
       /\ settings = [k \in Keyspaces |->
                      IF k = "tenant_a" THEN d.setting ELSE Some("true")]
       /\ queue = [k \in Keyspaces |-> IF k = "tenant_a" THEN d.rows ELSE {SeedOther}]
  /\ crawled_pages = [k \in Keyspaces |-> {}]
  /\ crawl_errors = [k \in Keyspaces |-> {}]
  /\ crawl_stats = [k \in Keyspaces |->
                      [d \in Domains |-> [pages_crawled |-> 0, pages_failed |-> 0]]]
  /\ allowed_domains = [k \in Keyspaces |->
                          IF k = "tenant_a" THEN {"a.test"} ELSE {"b.test"}]
  /\ objects = {}
  /\ search_index = {}
  /\ leases = {}
  /\ api_response = None
  /\ pc = [w \in Workers |-> "start"]
  /\ ret = [w \in Workers |-> "none"]
  /\ local = [w \in Workers |-> NoLocal]
  /\ call = [w \in Workers |-> NoCall]
  /\ attempts = [i \in {} |-> 0]
  /\ successes = [i \in {} |-> 0]
  /\ next_rid = 1
  /\ adds = 0
  /\ sessions = NoSessions
  /\ magic_link_tokens = NoMagicLinkTokens
  /\ verifications = NoVerifications
  /\ served = None
  /\ invocations = <<>>

----------------------------------------------------------------------------
(* Tables (services/db.rs) *)

QueueKey(e) == <<e.priority, e.scheduled_at, e.url>>

(* INSERT INTO crawl_queue: a row with the same primary key is replaced *)
insert_queue_entry(q, e) == {r \in q : QueueKey(r) # QueueKey(e)} \cup {e}

(* A DELETE whose WHERE clause matches no row *)
delete_queue_entry_no_match(q, e) == q

(* DELETE FROM crawl_queue WHERE priority = ? AND scheduled_at = ? AND url = ? *)
delete_queue_entry(q, e) == {r \in q : QueueKey(r) # QueueKey(e)}

PageKey(p) == <<p.domain, p.url_path>>

insert_crawled_page(t, p) == {r \in t : PageKey(r) # PageKey(p)} \cup {p}

get_crawled_page(t, domain, url_path) ==
  IF \E r \in t : PageKey(r) = <<domain, url_path>>
    THEN Some(CHOOSE r \in t : PageKey(r) = <<domain, url_path>>)
    ELSE None

(* An existence check that never finds a row *)
crawled_page_exists_never(t, domain, url_path) == FALSE

crawled_page_exists(t, domain, url_path) ==
  IsSome(get_crawled_page(t, domain, url_path))

ErrorKey(e) == <<e.domain, e.occurred_at>>

insert_crawl_error(t, e) == {r \in t : ErrorKey(r) # ErrorKey(e)} \cup {e}

(* An allow-list check that lets every domain through *)
is_domain_allowed_any(t, domain) == TRUE

(* SELECT domain FROM allowed_domains WHERE domain = ? *)
is_domain_allowed(t, domain) == domain \in t

(* A gate that is open whenever nothing is stored *)
is_crawling_enabled_default_on(k) ==
  IF IsSome(settings[k]) THEN Unwrap(settings[k]) = "true"
  ELSE TRUE

is_crawling_enabled(k) ==
  IF IsSome(settings[k]) THEN Unwrap(settings[k]) = "true"
  ELSE config.environment = "dev"

RECURSIVE pow2(_)
pow2(n) == IF n = 0 THEN 1 ELSE 2 * pow2(n - 1)

(* A retry row that keeps the priority and restarts created_at *)
retry_entry_as_new(entry, t, rid) ==
  [priority |-> entry.priority,
   scheduled_at |-> t + pow2(entry.attempt_count),
   url |-> entry.url,
   domain |-> entry.domain,
   last_attempt_at |-> Some(t),
   attempt_count |-> entry.attempt_count + 1,
   created_at |-> t,
   rid |-> rid, origin |-> entry.origin]

(* requeue_with_retry builds the retry row *)
retry_entry(entry, t, rid) ==
  [priority |-> entry.priority + 1,
   scheduled_at |-> t + pow2(entry.attempt_count),
   url |-> entry.url,
   domain |-> entry.domain,
   last_attempt_at |-> Some(t),
   attempt_count |-> entry.attempt_count + 1,
   created_at |-> entry.created_at,
   rid |-> rid, origin |-> entry.origin]

(* The name of the variant, as Debug prints it *)
to_string_debug(error_type) == error_type

(* impl Display for CrawlErrorType *)
to_string(error_type) ==
  CASE error_type = "FetchError" -> "fetch_error"
    [] error_type = "StorageError" -> "storage_error"
    [] error_type = "DatabaseError" -> "database_error"
    [] error_type = "SearchIndexError" -> "search_index_error"
    [] error_type = "RobotsDisallowed" -> "robots_disallowed"
    [] error_type = "InvalidUrl" -> "invalid_url"
    [] error_type = "Unknown" -> "unknown"

----------------------------------------------------------------------------
(* Environment *)

Tick ==
  /\ now < MaxTime
  /\ now' = now + 1
  /\ UNCHANGED <<config, sessions, served, magic_link_vars, invocations, db_vars, objects, search_index, leases, api_response,
                 pc, ret, local, call, attempts, successes, next_rid, adds>>

(* models/queue.rs AddToQueueRequest: #[serde(default = "default_priority")] *)
default_priority == 1

(* the priority of the deserialized request; priority is the field of the  *)
(* JSON body, None when the body has none                                  *)
payload_priority(priority) ==
  IF IsSome(priority) THEN Unwrap(priority) ELSE default_priority

(* app.rs add_to_queue_handler on the client TenantDb resolved (keyspace   *)
(* k); the response is kept with the request it answers                    *)
add_to_queue_handler(k, url, priority) ==
  LET request == [url |-> url, priority |-> priority] IN
  /\ adds < MaxAdds
  /\ adds' = adds + 1
  /\ IF ~parse_ok(url) THEN
       /\ api_response' = Some([status |-> 400, domain |-> "", request |-> request])
       /\ UNCHANGED <<queue, next_rid>>
     ELSE IF ~IsSome(host_str(url)) THEN
       /\ api_response' = Some([status |-> 400, domain |-> "", request |-> request])
       /\ UNCHANGED <<queue, next_rid>>
     ELSE IF ~is_domain_allowed(allowed_domains[k], Unwrap(host_str(url))) THEN
       /\ api_response' = Some([status |-> 403, domain |-> Unwrap(host_str(url)),
                                request |-> request])
       /\ UNCHANGED <<queue, next_rid>>
     ELSE
       /\ queue' = [queue EXCEPT ![k] = insert_queue_entry(@,
            [priority |-> payload_priority(priority), scheduled_at |-> now,
             url |-> url,
             domain |-> Unwrap(host_str(url)), last_attempt_at |-> None,
             attempt_count |-> 0, created_at |-> now,
             rid |-> next_rid, origin |-> next_rid])]
       /\ next_rid' = next_rid + 1
       /\ api_response' = Some([status |-> 200, domain |-> Unwrap(host_str(url)),
                                request |-> request])
  /\ UNCHANGED <<now, config, crawled_pages, crawl_errors, crawl_stats,
                 allowed_domains, settings, objects, search_index, leases,
                 pc, ret, local, call, attempts, successes>>

(* POST /queue/add in single-tenant mode: TenantDb is the base client *)
AddToQueue ==
  /\ \E url \in ApiUrls, priority \in ApiPriorities :
       add_to_queue_handler("tenant_a", url, priority)
  /\ UNCHANGED <<sessions, served, magic_link_vars, invocations>>

----------------------------------------------------------------------------
(* Fetcher (services/crawler.rs) *)

CrawlResult(allowed, content, error, x_robots_tag) ==
  [allowed_by_robots |-> allowed, content |-> content, error |-> error,
   x_robots_tag |-> x_robots_tag]

(* texting_robots::get_robots_url: needs an http(s) URL with a host *)
get_robots_url_ok(url) == url.scheme = "http" /\ url.host # ""

(* texting_robots::Robot::allowed on the robots.txt text *)
robot_allowed(robots_txt, url) == robots_txt # "User-agent: * Disallow: /"

(* crawl_url on the answers rr (robots.txt request) and pr (page request)  *)
(* of the network; net lists the requests it sent.                         *)
crawl_url(url, rr, pr) ==
  IF ~parse_ok(url) THEN
    [kind |-> "ok", net |-> <<>>,
     result |-> CrawlResult(FALSE, None, Some("Invalid URL"), None)]
  ELSE IF ~get_robots_url_ok(url) THEN
    [kind |-> "err", net |-> <<>>,
     result |-> CrawlResult(FALSE, None, None, None)]
  ELSE
    LET robots_txt == IF rr.kind = "response" THEN rr.body ELSE "" IN
    IF ~robot_allowed(robots_txt, url) THEN
      [kind |-> "ok", net |-> <<"robots_get">>,
       result |-> CrawlResult(FALSE, None, None, None)]
    ELSE IF pr.kind = "response" THEN
      [kind |-> "ok", net |-> <<"robots_get", "page_get">>,
       result |-> CrawlResult(TRUE, pr.doc, None, pr.header)]
    ELSE IF pr.kind = "body_error" THEN
      [kind |-> "err", net |-> <<"robots_get", "page_get">>,
       result |-> CrawlResult(TRUE, None, None, None)]
    ELSE
      [kind |-> "ok", net |-> <<"robots_get", "page_get">>,
       result |-> CrawlResult(TRUE, None, Some("Failed to fetch content"), None)]

----------------------------------------------------------------------------
(* Pipeline (services/queue_processor.rs) *)

(* A client that qualifies its tables with the keyspace of another tenant *)
K_other_tenant(w) == CHOOSE k \in Keyspaces : k # WorkerKeyspace[w]

(* self.db_client.keyspace, which qualifies every table name of its queries *)
K(w) == WorkerKeyspace[w]

Entry(w) == Unwrap(local[w].entry)

Step(w, newpc) ==
  /\ pc' = [pc EXCEPT ![w] = newpc]
  /\ UNCHANGED ret

Return(w, r) ==
  /\ pc' = [pc EXCEPT ![w] = "returned"]
  /\ ret' = [ret EXCEPT ![w] = r]

Traced(w, events) == [call[w] EXCEPT !.trace = @ \o events]

(* process_next_entry's Err((error_type, error_message)) arm: the locals   *)
(* of process_crawl_entry are dropped and handle_crawl_failure is called,  *)
(* which reads the clock before its first await.                           *)
Failed(l, error_type, error_message) ==
  [NoLocal EXCEPT !.entry = l.entry,
                  !.failure = Some([error_type |-> error_type,
                                    error_message |-> error_message]),
                  !.occurred_at = Some(now)]

CountAttempt(origin) ==
  IF origin \in DOMAIN attempts
    THEN [attempts EXCEPT ![origin] = @ + 1]
    ELSE attempts @@ (origin :> 1)

(* A process_next_entry that goes on to the queue whatever the setting says *)
CheckCrawlingEnabled_ignored(w) ==
  /\ pc[w] = "start"
  /\ Step(w, "get")
  /\ UNCHANGED <<now, config, sessions, served, magic_link_vars, invocations, db_vars, objects, search_index, leases, api_response,
                 local, call, attempts, successes, next_rid, adds>>

(* process_next_entry, up to the settings read *)
CheckCrawlingEnabled(w) ==
  /\ pc[w] = "start"
  /\ IF is_crawling_enabled(K(w)) THEN Step(w, "get") ELSE Return(w, "false")
  /\ UNCHANGED <<now, config, sessions, served, magic_link_vars, invocations, db_vars, objects, search_index, leases, api_response,
                 local, call, attempts, successes, next_rid, adds>>

(* SELECT ... FROM crawl_queue LIMIT 1: no ORDER BY and no filter on       *)
(* scheduled_at, any row of the table can come back.                       *)
get_next_queue_entry(w, budget) ==
  /\ pc[w] = "get"
  /\ IF queue[K(w)] = {} THEN
       /\ Return(w, "false")
       /\ UNCHANGED <<local, call>>
       /\ UNCHANGED leases
     ELSE
       \E e \in queue[K(w)] :
         /\ Cardinality(leases) < budget
         /\ leases' = leases \cup {e.rid}
         /\ local' = [local EXCEPT ![w].entry = Some(e)]
         /\ call' = [call EXCEPT ![w].entry = Some(e)]
         /\ Step(w, "lease")
  /\ UNCHANGED <<now, config, sessions, served, magic_link_vars, invocations, db_vars, objects, search_index, api_response,
                 attempts, successes, next_rid, adds>>

GetNextQueueEntry(w) == get_next_queue_entry(w, MaxLeases)

DeleteQueueEntry(w) ==
  /\ pc[w] = "lease"
  /\ queue' = [queue EXCEPT ![K(w)] = delete_queue_entry(@, Entry(w))]
  /\ call' = [call EXCEPT ![w] = Traced(w, <<"lease">>)]
  /\ Step(w, "fetch")
  /\ UNCHANGED <<now, config, sessions, served, magic_link_vars, invocations, crawled_pages, crawl_errors, crawl_stats,
                 allowed_domains, settings, objects, search_index,
                 leases, api_response, local, attempts, successes, next_rid, adds>>

(* process_crawl_entry stage 1 with the classification of its result *)
process_crawl_entry_fetch(w, robots_responses, page_responses) ==
  /\ pc[w] = "fetch"
  /\ \E rr \in robots_responses, pr \in page_responses :
       LET r == crawl_url(Entry(w).url, rr, pr)
           l1 == [local[w] EXCEPT !.result = Some(r.result)]
       IN
       /\ call' = [call EXCEPT ![w] = Traced(w, r.net)]
       /\ IF r.kind = "err" THEN
            /\ local' = [local EXCEPT ![w] =
                           Failed(local[w], "FetchError", "Failed to crawl")]
            /\ Step(w, "log_error")
          ELSE IF ~r.result.allowed_by_robots THEN
            /\ local' = [local EXCEPT ![w] =
                 Failed(l1, "RobotsDisallowed", "Crawling disallowed by robots.txt")]
            /\ Step(w, "log_error")
          ELSE IF ~IsSome(r.result.content) THEN
            /\ local' = [local EXCEPT ![w] =
                 Failed(l1, "FetchError",
                        IF IsSome(r.result.error) THEN Unwrap(r.result.error)
                        ELSE "No content retrieved")]
            /\ Step(w, "log_error")
          ELSE
            /\ local' = [local EXCEPT ![w] = l1]
            /\ Step(w, "store")
  /\ attempts' = CountAttempt(Entry(w).origin)
  /\ UNCHANGED <<now, config, sessions, served, magic_link_vars, invocations, db_vars, objects, search_index, leases, api_response,
                 successes, next_rid, adds>>

CrawlUrl(w) == process_crawl_entry_fetch(w, RobotsResponses, PageResponses)

(* Uuid::now_v7(): time ordered and never repeated *)
new_storage_id == Cardinality(objects) + 1

(* The upload as an optional stage: with no storage client the pipeline   *)
(* goes on with no storage_id                                              *)
UploadContent_optional(w) ==
  /\ pc[w] = "store"
  /\ IF ~config.has_storage THEN
       /\ Step(w, "lookup")
       /\ UNCHANGED <<objects, call, local>>
     ELSE
       \/ /\ objects' = objects \cup
               {[storage_id |-> new_storage_id,
                 body |-> Unwrap(Unwrap(local[w].result).content)]}
          /\ local' = [local EXCEPT ![w].storage_id = Some(new_storage_id)]
          /\ call' = [call EXCEPT ![w] = Traced(w, <<"upload">>)]
          /\ Step(w, "lookup")
       \/ /\ local' = [local EXCEPT ![w] =
               Failed(local[w], "StorageError", "S3 upload failed")]
          /\ Step(w, "log_error")
          /\ UNCHANGED <<objects, call>>
  /\ UNCHANGED <<now, config, sessions, served, magic_link_vars, invocations, db_vars, search_index, leases, api_response,
                 attempts, successes, next_rid, adds>>

(* upload_to_storage_required and StorageClient::upload_content *)
UploadContent(w) ==
  /\ pc[w] = "store"
  /\ IF ~config.has_storage THEN
       /\ local' = [local EXCEPT ![w] =
            Failed(local[w], "StorageError", "Storage client not configured")]
       /\ Step(w, "log_error")
       /\ UNCHANGED <<objects, call>>
     ELSE
       \/ /\ objects' = objects \cup
               {[storage_id |-> new_storage_id,
                 body |-> Unwrap(Unwrap(local[w].result).content)]}
          /\ local' = [local EXCEPT ![w].storage_id = Some(new_storage_id)]
          /\ call' = [call EXCEPT ![w] = Traced(w, <<"upload">>)]
          /\ Step(w, "lookup")
       \/ /\ local' = [local EXCEPT ![w] =
               Failed(local[w], "StorageError", "S3 upload failed")]
          /\ Step(w, "log_error")
          /\ UNCHANGED <<objects, call>>
  /\ UNCHANGED <<now, config, sessions, served, magic_link_vars, invocations, db_vars, search_index, leases, api_response,
                 attempts, successes, next_rid, adds>>

(* format!("{:x}", md5::compute(content)): the digest of the content, which *)
(* stands for no other content                                              *)
md5_hex(content) == <<"md5", content>>

(* A row whose next crawl is crawl_frequency_hours minutes away *)
create_crawled_page_next_in_minutes(entry, result, storage_id, existing, t) ==
  [domain |-> IF IsSome(host_str(entry.url)) THEN Unwrap(host_str(entry.url))
              ELSE entry.domain,
   url_path |-> entry.url.path,
   url |-> entry.url,
   storage_id |-> storage_id,
   last_crawled_at |-> t,
   next_crawl_at |-> t + crawl_frequency_hours,
   crawl_frequency_hours |-> crawl_frequency_hours,
   http_status |-> IF result.allowed_by_robots
                     THEN (IF IsSome(result.content) THEN 200 ELSE 500)
                     ELSE 403,
   content_hash |-> IF IsSome(result.content) THEN md5_hex(Unwrap(result.content))
                    ELSE "",
   robots_allowed |-> result.allowed_by_robots,
   error_message |-> result.error,
   crawl_count |-> IF IsSome(existing) THEN Unwrap(existing).crawl_count + 1 ELSE 1,
   created_at |-> IF IsSome(existing) THEN Unwrap(existing).created_at ELSE t,
   updated_at |-> t]

(* create_crawled_page; existing is what get_crawled_page(..).ok().flatten() gave *)
create_crawled_page(entry, result, storage_id, existing, t) ==
  [domain |-> IF IsSome(host_str(entry.url)) THEN Unwrap(host_str(entry.url))
              ELSE entry.domain,
   url_path |-> entry.url.path,
   url |-> entry.url,
   storage_id |-> storage_id,
   last_crawled_at |-> t,
   next_crawl_at |-> t + crawl_frequency_hours * 60,
   crawl_frequency_hours |-> crawl_frequency_hours,
   http_status |-> IF result.allowed_by_robots
                     THEN (IF IsSome(result.content) THEN 200 ELSE 500)
                     ELSE 403,
   content_hash |-> IF IsSome(result.content) THEN md5_hex(Unwrap(result.content))
                    ELSE "",
   robots_allowed |-> result.allowed_by_robots,
   error_message |-> result.error,
   crawl_count |-> IF IsSome(existing) THEN Unwrap(existing).crawl_count + 1 ELSE 1,
   created_at |-> IF IsSome(existing) THEN Unwrap(existing).created_at ELSE t,
   updated_at |-> t]

(* process_crawl_entry stage 3, first half: create_crawled_page looks up   *)
(* the prior row with get_crawled_page(..).await.ok().flatten(), so a      *)
(* failed lookup reads as "no prior row". lookup_fails is what the lookup  *)
(* can do: FALSE it answers, TRUE it returns Err.                          *)
lookup_crawled_page(w, lookup_fails) ==
  /\ pc[w] = "lookup"
  /\ IF ~parse_ok(Entry(w).url) THEN
       /\ local' = [local EXCEPT ![w] =
            Failed(local[w], "DatabaseError", "Failed to create page")]
       /\ Step(w, "log_error")
     ELSE
       \E fails \in lookup_fails :
         LET existing_page ==
               IF fails THEN None
               ELSE get_crawled_page(crawled_pages[K(w)],
                      IF IsSome(host_str(Entry(w).url))
                        THEN Unwrap(host_str(Entry(w).url)) ELSE Entry(w).domain,
                      Entry(w).url.path)
             page == create_crawled_page(Entry(w), Unwrap(local[w].result),
                       local[w].storage_id, existing_page, now)
         IN /\ local' = [local EXCEPT ![w].page = Some(page)]
            /\ Step(w, "upsert")
  /\ UNCHANGED <<now, config, sessions, served, magic_link_vars, invocations, db_vars, objects, search_index, leases, api_response,
                 call, attempts, successes, next_rid, adds>>

CreateCrawledPage(w) == lookup_crawled_page(w, {FALSE})

(* upsert_crawled_page: the INSERT INTO crawled_pages *)
UpsertCrawledPage(w) ==
  /\ pc[w] = "upsert"
  /\ \/ /\ crawled_pages' = [crawled_pages EXCEPT ![K(w)] =
             insert_crawled_page(@, Unwrap(local[w].page))]
        /\ call' = [call EXCEPT ![w] = Traced(w, <<"page_write">>)]
        /\ local' = local
        /\ Step(w, "stats")
     \/ /\ local' = [local EXCEPT ![w] =
             Failed(local[w], "DatabaseError", "Failed to upsert page")]
        /\ Step(w, "log_error")
        /\ UNCHANGED <<crawled_pages, call>>
  /\ UNCHANGED <<now, config, sessions, served, magic_link_vars, invocations, queue, crawl_errors, crawl_stats, allowed_domains,
                 settings, objects, search_index, leases, api_response,
                 attempts, successes, next_rid, adds>>

(* Discovery that runs whatever the directives say *)
AfterIndex_always_discover(directives) == "count"

(* where process_post_crawl goes once stage 4 is over (or skipped) *)
AfterIndex(directives) == IF directives.nofollow THEN "returned" ELSE "count"

(* Indexing that runs whatever the directives say *)
PostCrawl_always_index(directives) ==
  IF config.has_search THEN "index"
  ELSE IF directives.nofollow THEN "returned" ELSE "count"

(* where process_post_crawl starts *)
PostCrawl(directives) ==
  IF directives.noindex THEN AfterIndex(directives)
  ELSE IF config.has_search THEN "index"
  ELSE AfterIndex(directives)

Directives(w) ==
  get_robots_directives(Unwrap(Unwrap(local[w].result).content),
                        Unwrap(local[w].result).x_robots_tag)

Goto(w, target) ==
  IF target = "returned" THEN Return(w, "true") ELSE Step(w, target)

(* upsert_crawled_page: increment_crawl_stats, then back in                *)
(* process_crawl_entry the robots directives and the start of              *)
(* process_post_crawl                                                      *)
IncrementCrawlStats(w) ==
  /\ pc[w] = "stats"
  /\ \/ /\ crawl_stats' = [crawl_stats EXCEPT
             ![K(w)][Unwrap(local[w].page).domain].pages_crawled = @ + 1]
        /\ call' = [call EXCEPT ![w] = Traced(w, <<"stats">>)]
        /\ local' = local
        /\ Goto(w, PostCrawl(Directives(w)))
     \/ /\ local' = [local EXCEPT ![w] =
             Failed(local[w], "DatabaseError", "Failed to upsert page")]
        /\ Step(w, "log_error")
        /\ UNCHANGED <<crawl_stats, call>>
  /\ UNCHANGED <<now, config, sessions, served, magic_link_vars, invocations, queue, crawled_pages, crawl_errors, allowed_domains,
                 settings, objects, search_index, leases, api_response,
                 attempts, successes, next_rid, adds>>

(* QueueProcessor.tenant_id: None in single-tenant mode *)
tenant_id(w) == None

(* doc_id with the tenant id left out of the hash input *)
doc_id_of_url_only(tid, url) == url_text(url)

(* the input of md5::compute in index_document_to_search: format!("{}{}",  *)
(* tid, entry.url) with a tenant id, entry.url without                     *)
doc_id(tid, url) ==
  IF IsSome(tid) THEN Text(Unwrap(tid)) \o url_text(url) ELSE url_text(url)

(* the IndexedDocument index_document_to_search builds *)
IndexedDocument(tid, url, domain, page) ==
  [id |-> doc_id(tid, url),
   tenant_id |-> tid,
   url |-> url,
   domain |-> domain,
   crawled_at |-> page.last_crawled_at,
   http_status |-> page.http_status]

indexed_document(w) ==
  IndexedDocument(tenant_id(w), Entry(w).url, Entry(w).domain, Unwrap(local[w].page))

(* SearchClient::index_document: add_documents with primary key "id" adds *)
(* the document or replaces the one with its id                            *)
index_document(index, doc) == {d \in index : d.id # doc.id} \cup {doc}

(* process_post_crawl stage 4: index_document_to_search *)
IndexDocument(w) ==
  /\ pc[w] = "index"
  /\ call' = [call EXCEPT ![w] = Traced(w, <<"index">>)]
  /\ \/ /\ search_index' = index_document(search_index, indexed_document(w))
        /\ local' = local
        /\ Goto(w, AfterIndex(Directives(w)))
     \/ /\ local' = [local EXCEPT ![w] =
             Failed(local[w], "SearchIndexError", "Failed to index")]
        /\ Step(w, "log_error")
        /\ UNCHANGED search_index
  /\ UNCHANGED <<now, config, sessions, served, magic_link_vars, invocations, db_vars, objects, leases, api_response,
                 attempts, successes, next_rid, adds>>

(* enqueue_link before its first await: links that do not parse or have    *)
(* no host are dropped                                                     *)
RECURSIVE skip_unparsed(_)
skip_unparsed(links) ==
  IF links = <<>> THEN <<>>
  ELSE IF ~parse_ok(Head(links)) \/ ~IsSome(host_str(Head(links)))
    THEN skip_unparsed(Tail(links))
  ELSE links

(* enqueue_meet_links: count_crawled_pages, extract_links, start of the   *)
(* loop; when the count fails process_post_crawl prints a warning and     *)
(* returns Ok                                                              *)
enqueue_meet_links(w, count_fails) ==
  /\ pc[w] = "count"
  /\ \E fails \in count_fails :
       IF fails THEN
         /\ local' = local
         /\ Return(w, "true")
         /\ call' = [call EXCEPT ![w] = Traced(w, <<"discover", "count_error">>)]
       ELSE
         LET links == skip_unparsed(
                        extract_links(Unwrap(Unwrap(local[w].result).content),
                                      Entry(w).url))
         IN /\ local' = [local EXCEPT ![w].links = links]
            /\ Goto(w, IF links = <<>> THEN "returned" ELSE "allow")
            /\ call' = [call EXCEPT ![w] = Traced(w, <<"discover">>)]
  /\ UNCHANGED <<now, config, sessions, served, magic_link_vars, invocations, db_vars, objects,
                 search_index, leases, api_response, attempts, successes,
                 next_rid, adds>>

CountCrawledPages(w) == enqueue_meet_links(w, {FALSE})

(* A loop that gives up the remaining links *)
NextLink_stop(w) ==
  /\ local' = [local EXCEPT ![w].links = <<>>]
  /\ Return(w, "true")

(* the loop of enqueue_meet_links moves to the next link *)
NextLink(w) ==
  LET rest == skip_unparsed(Tail(local[w].links)) IN
  /\ local' = [local EXCEPT ![w].links = rest]
  /\ Goto(w, IF rest = <<>> THEN "returned" ELSE "allow")

Link(w) == Head(local[w].links)

(* enqueue_link: is_domain_allowed; an Err is printed and the link dropped *)
enqueue_link_allowed(w, query_fails) ==
  /\ pc[w] = "allow"
  /\ \E fails \in query_fails :
       IF fails THEN
         /\ NextLink(w)
         /\ call' = [call EXCEPT ![w] = Traced(w, <<"allow_error">>)]
       ELSE
         /\ IF is_domain_allowed(allowed_domains[K(w)], Link(w).host)
              THEN Step(w, "exists") /\ local' = local
              ELSE NextLink(w)
         /\ call' = call
  /\ UNCHANGED <<now, config, sessions, served, magic_link_vars, invocations, db_vars, objects,
                 search_index, leases, api_response, attempts, successes,
                 next_rid, adds>>

LinkCheckAllowed(w) == enqueue_link_allowed(w, {FALSE})

(* enqueue_link: crawled_page_exists; an Err is printed and the link dropped *)
enqueue_link_exists(w, query_fails) ==
  /\ pc[w] = "exists"
  /\ \E fails \in query_fails :
       IF fails THEN
         /\ NextLink(w)
         /\ call' = [call EXCEPT ![w] = Traced(w, <<"exists_error">>)]
       ELSE
         /\ IF crawled_page_exists(crawled_pages[K(w)], Link(w).host, Link(w).path)
              THEN NextLink(w)
              ELSE Step(w, "insert") /\ local' = local
         /\ call' = call
  /\ UNCHANGED <<now, config, sessions, served, magic_link_vars, invocations, db_vars, objects,
                 search_index, leases, api_response, attempts, successes,
                 next_rid, adds>>

LinkCheckExists(w) == enqueue_link_exists(w, {FALSE})

(* A link row that takes over the schedule and the history of its parent *)
link_entry_of_parent(link, parent_entry, t, rid) ==
  [priority |-> parent_entry.priority,
   scheduled_at |-> parent_entry.scheduled_at,
   url |-> link,
   domain |-> parent_entry.domain,
   last_attempt_at |-> parent_entry.last_attempt_at,
   attempt_count |-> parent_entry.attempt_count,
   created_at |-> parent_entry.created_at,
   rid |-> rid, origin |-> rid]

(* enqueue_link builds the row of a link *)
link_entry(link, parent_entry, t, rid) ==
  [priority |-> parent_entry.priority,
   scheduled_at |-> t,
   url |-> link,
   domain |-> link.host,
   last_attempt_at |-> None,
   attempt_count |-> 0,
   created_at |-> t,
   rid |-> rid, origin |-> rid]

(* enqueue_link: insert_queue_entry; an Err is printed *)
enqueue_link_insert(w, insert_fails) ==
  /\ pc[w] = "insert"
  /\ \E fails \in insert_fails :
       IF fails THEN
         /\ call' = [call EXCEPT ![w] = Traced(w, <<"insert_error">>)]
         /\ UNCHANGED <<queue, next_rid>>
       ELSE
         LET new_entry == link_entry(Link(w), Entry(w), now, next_rid) IN
         /\ queue' = [queue EXCEPT ![K(w)] = insert_queue_entry(@, new_entry)]
         /\ call' = [call EXCEPT ![w] =
              [Traced(w, <<"link_insert">>) EXCEPT
                 !.inserted = @ \cup {[row |-> new_entry, kind |-> "discover"]}]]
         /\ next_rid' = next_rid + 1
  /\ NextLink(w)
  /\ UNCHANGED <<now, config, sessions, served, magic_link_vars, invocations, crawled_pages,
                 crawl_errors, crawl_stats, allowed_domains, settings, objects,
                 search_index, leases, api_response, attempts, successes, adds>>

LinkInsert(w) == enqueue_link_insert(w, {FALSE})

(* handle_crawl_failure: the domain of the CrawlError row *)
failure_domain(entry) ==
  IF parse_ok(entry.url)
    THEN (IF IsSome(host_str(entry.url)) THEN Unwrap(host_str(entry.url))
          ELSE entry.domain)
    ELSE entry.domain

(* A row that carries the attempt count of the entry as it was read *)
crawl_error_same_attempt(entry, failure, occurred_at) ==
  [domain |-> failure_domain(entry),
   occurred_at |-> occurred_at,
   url |-> entry.url,
   error_type |-> to_string(failure.error_type),
   error_message |-> failure.error_message,
   attempt_count |-> entry.attempt_count,
   stack_trace |-> None]

crawl_error(entry, failure, occurred_at) ==
  [domain |-> failure_domain(entry),
   occurred_at |-> occurred_at,
   url |-> entry.url,
   error_type |-> to_string(failure.error_type),
   error_message |-> failure.error_message,
   attempt_count |-> entry.attempt_count + 1,
   stack_trace |-> None]

(* The retry decision with the limit compared by <= *)
should_retry_inclusive(error_type, entry) ==
  IF error_type \in {"RobotsDisallowed", "InvalidUrl"} THEN FALSE
  ELSE entry.attempt_count <= MAX_RETRY_ATTEMPTS

(* The retry decision with no limit at all *)
should_retry_unlimited(error_type, entry) ==
  error_type \notin {"RobotsDisallowed", "InvalidUrl"}

(* The retry decision that looks at the attempt count only *)
should_retry_any_kind(error_type, entry) ==
  entry.attempt_count < MAX_RETRY_ATTEMPTS

should_retry(error_type, entry) ==
  IF error_type \in {"RobotsDisallowed", "InvalidUrl"} THEN FALSE
  ELSE entry.attempt_count < MAX_RETRY_ATTEMPTS

(* handle_crawl_failure, log_crawl_error: the INSERT INTO crawl_errors.     *)
(* insert_fails is what the INSERT can do: FALSE it is applied, TRUE it     *)
(* returns Err, which log_crawl_error hands up with ? before it touches     *)
(* crawl_stats; handle_crawl_failure prints it and goes on to the retry     *)
(* decision. call.logged keeps every row handed to log_crawl_error.         *)
log_crawl_error(w, insert_fails) ==
  /\ pc[w] = "log_error"
  /\ \E fails \in insert_fails :
       LET row == crawl_error(Entry(w), Unwrap(local[w].failure),
                              Unwrap(local[w].occurred_at)) IN
         IF fails
           THEN /\ UNCHANGED crawl_errors
                /\ call' = [call EXCEPT ![w] =
                     [Traced(w, <<"error_row_failed">>) EXCEPT
                        !.logged = Append(@, row)]]
                /\ Goto(w, IF should_retry(Unwrap(local[w].failure).error_type, Entry(w))
                             THEN "requeue" ELSE "returned")
           ELSE /\ crawl_errors' = [crawl_errors EXCEPT ![K(w)] = insert_crawl_error(@, row)]
                /\ call' = [call EXCEPT ![w] =
                     [Traced(w, <<"error_row">>) EXCEPT
                        !.error_row = Some(row),
                        !.logged = Append(@, row)]]
                /\ Step(w, "log_stats")
  /\ UNCHANGED <<now, config, sessions, served, magic_link_vars, invocations, queue, crawled_pages, crawl_stats, allowed_domains,
                 settings, objects, search_index, leases, api_response,
                 local, attempts, successes, next_rid, adds>>

LogCrawlError(w) == log_crawl_error(w, {FALSE})

(* log_crawl_error: increment_crawl_failed_stats, then the retry decision  *)
(* of handle_crawl_failure. An Err of log_crawl_error is printed and       *)
(* handle_crawl_failure goes on. update_fails is what the UPDATE can do:   *)
(* FALSE it is applied, TRUE it returns Err.                               *)
increment_crawl_failed_stats(w, update_fails) ==
  /\ pc[w] = "log_stats"
  /\ \E fails \in update_fails :
       IF fails THEN UNCHANGED crawl_stats
       ELSE crawl_stats' = [crawl_stats EXCEPT
              ![K(w)][failure_domain(Entry(w))].pages_failed = @ + 1]
  /\ Goto(w, IF should_retry(Unwrap(local[w].failure).error_type, Entry(w))
               THEN "requeue" ELSE "returned")
  /\ UNCHANGED <<now, config, sessions, served, magic_link_vars, invocations, queue, crawled_pages, crawl_errors, allowed_domains,
                 settings, objects, search_index, leases, api_response,
                 local, call, attempts, successes, next_rid, adds>>

IncrementCrawlFailedStats(w) == increment_crawl_failed_stats(w, {FALSE})

(* handle_crawl_failure: requeue_with_retry. insert_fails is what the       *)
(* INSERT of the retry row can do; an Err is printed ("Failed to re-queue   *)
(* entry for retry") and the call ends as after a retry.                    *)
requeue_with_retry(w, insert_fails) ==
  /\ pc[w] = "requeue"
  /\ \E fails \in insert_fails :
       LET new_entry == retry_entry(Entry(w), now, next_rid) IN
         IF fails
           THEN /\ UNCHANGED <<queue, next_rid>>
                /\ call' = [call EXCEPT ![w] = Traced(w, <<"retry_failed">>)]
           ELSE /\ queue' = [queue EXCEPT ![K(w)] = insert_queue_entry(@, new_entry)]
                /\ call' = [call EXCEPT ![w] =
                     [Traced(w, <<"retry_row">>) EXCEPT
                        !.retry = Some(new_entry),
                        !.inserted = @ \cup {[row |-> new_entry, kind |-> "retry"]}]]
                /\ next_rid' = next_rid + 1
  /\ Return(w, "true")
  /\ UNCHANGED <<now, config, sessions, served, magic_link_vars, invocations, crawled_pages, crawl_errors, crawl_stats,
                 allowed_domains, settings, objects, search_index,
                 leases, api_response, local, attempts, successes, adds>>

RequeueWithRetry(w) == requeue_with_retry(w, {FALSE})

(* process_next_entry has returned from a call that took a row *)
Done(w) == pc[w] = "returned" /\ IsSome(call[w].entry)

(* the row that call took *)
Taken(w) == Unwrap(call[w].entry)

(* process_crawl_entry returned Ok(()): "Successfully processed URL" *)
Succeeded(w) == Done(w) /\ ~IsSome(local[w].failure)

CountSuccess(key) ==
  IF key \in DOMAIN successes
    THEN [successes EXCEPT ![key] = @ + 1]
    ELSE successes @@ (key :> 1)

(* A loop that sleeps after every iteration *)
LoopIterate_always_sleep(w) ==
  /\ pc[w] = "returned"
  /\ pc' = [pc EXCEPT ![w] = "sleep"]
  /\ local' = [local EXCEPT ![w] = NoLocal]
  /\ call' = [call EXCEPT ![w] = NoCall]
  /\ successes' = IF Succeeded(w) THEN CountSuccess(<<K(w), Taken(w).url>>)
                  ELSE successes
  /\ UNCHANGED <<now, config, sessions, served, magic_link_vars, invocations, db_vars, objects,
                 search_index, leases, api_response, ret, attempts, next_rid, adds>>

(* QueueProcessor::start: the match on what process_next_entry returned,  *)
(* after process_next_entry printed the outcome of the call               *)
LoopIterate(w) ==
  /\ pc[w] = "returned"
  /\ pc' = [pc EXCEPT ![w] = IF ret[w] = "true" THEN "start" ELSE "sleep"]
  /\ local' = [local EXCEPT ![w] = NoLocal]
  /\ call' = [call EXCEPT ![w] = NoCall]
  /\ successes' = IF Succeeded(w) THEN CountSuccess(<<K(w), Taken(w).url>>)
                  ELSE successes
  /\ UNCHANGED <<now, config, sessions, served, magic_link_vars, invocations, db_vars, objects, search_index, leases, api_response,
                 ret, attempts, next_rid, adds>>

(* QueueProcessor::start: sleep(poll_interval) is over *)
Wake(w) ==
  /\ pc[w] = "sleep"
  /\ pc' = [pc EXCEPT ![w] = "start"]
  /\ UNCHANGED <<now, config, sessions, served, magic_link_vars, invocations, db_vars, objects, search_index, leases, api_response,
                 ret, local, call, attempts, successes, next_rid, adds>>

(* that call made the given request or write *)
Did(w, event) == \E i \in DOMAIN call[w].trace : call[w].trace[i] = event

(* the CrawlError row and the retry row that call wrote *)
ErrorRow(w) == Unwrap(call[w].error_row)

RetryRow(w) == Unwrap(call[w].retry)

----------------------------------------------------------------------------
(* One scheduler on tenant_a and the clock, on the queue found at startup *)

Scheduler == "w1"

(* The steps that call Utc::now(): only they observe the clock, so a tick  *)
(* is taken right before one of them or while the scheduler is between     *)
(* two calls; a tick anywhere else shows in the same reads.                *)
ReadsClock ==
  {"fetch", "store", "lookup", "upsert", "stats", "index", "insert", "requeue"}

BetweenCalls(w) == pc[w] \in {"start", "sleep"}

ClockTick ==
  /\ BetweenCalls(Scheduler) \/ pc[Scheduler] \in ReadsClock
  /\ Tick

Next ==
  \/ ClockTick
  \/ CheckCrawlingEnabled(Scheduler)
  \/ GetNextQueueEntry(Scheduler)
  \/ DeleteQueueEntry(Scheduler)
  \/ CrawlUrl(Scheduler)
  \/ UploadContent(Scheduler)
  \/ CreateCrawledPage(Scheduler)
  \/ UpsertCrawledPage(Scheduler)
  \/ IncrementCrawlStats(Scheduler)
  \/ IndexDocument(Scheduler)
  \/ CountCrawledPages(Scheduler)
  \/ LinkCheckAllowed(Scheduler)
  \/ LinkCheckExists(Scheduler)
  \/ LinkInsert(Scheduler)
  \/ LogCrawlError(Scheduler)
  \/ IncrementCrawlFailedStats(Scheduler)
  \/ RequeueWithRetry(Scheduler)
  \/ LoopIterate(Scheduler)
  \/ Wake(Scheduler)

Spec == Init /\ [][Next]_vars

----------------------------------------------------------------------------
(* One scheduler on tenant_a while the network is down: every page request *)
(* fails, so every processing attempt ends in a fetch error. The queue     *)
(* starts empty and rows are admitted through POST /queue/add.             *)

InitFailing ==
  /\ Init
  /\ queue["tenant_a"] = {}
  /\ is_crawling_enabled("tenant_a")

NetworkDown == {[kind |-> "network_error", status |-> 0, body |-> ""]}

PageDown == {[kind |-> "network_error", status |-> 0, header |-> None, doc |-> None]}

(* Enough leases for every admitted row to go through more attempts than   *)
(* the retry policy grants it                                              *)
LeaseCap == MaxAdds * (MAX_RETRY_ATTEMPTS + 3)

GetNextQueueEntryFailing(w) == get_next_queue_entry(w, LeaseCap)

CrawlUrlFailing(w) == process_crawl_entry_fetch(w, NetworkDown, PageDown)

(* POST /queue/add writes crawl_queue only, and a call of                  *)
(* process_next_entry reads crawl_queue only in get_next_queue_entry: a    *)
(* request served while a call runs leaves the same state as one served    *)
(* right after the call started, so requests are taken between two calls.  *)
ApiRequest ==
  /\ BetweenCalls(Scheduler)
  /\ AddToQueue

NextFailing ==
  \/ ClockTick
  \/ ApiRequest
  \/ CheckCrawlingEnabled(Scheduler)
  \/ GetNextQueueEntryFailing(Scheduler)
  \/ DeleteQueueEntry(Scheduler)
  \/ CrawlUrlFailing(Scheduler)
  \/ LogCrawlError(Scheduler)
  \/ IncrementCrawlFailedStats(Scheduler)
  \/ RequeueWithRetry(Scheduler)
  \/ LoopIterate(Scheduler)
  \/ Wake(Scheduler)

SpecFailing == InitFailing /\ [][NextFailing]_vars

----------------------------------------------------------------------------
(* One scheduler on tenant_a while no site answers with a 2xx status:      *)
(* every robots.txt request and every page request ends in a network error *)
(* or in a 404 response, whose body is whatever the site sends with it.    *)

RobotsRefused ==
  {r \in RobotsResponses : r.kind = "network_error" \/ r.status \notin 200..299}

PageRefused ==
  {p \in PageResponses :
     \/ p.kind = "network_error"
     \/ p.kind = "response" /\ p.status \notin 200..299}

CrawlUrlRefused(w) == process_crawl_entry_fetch(w, RobotsRefused, PageRefused)

NextRefused ==
  \/ ClockTick
  \/ CheckCrawlingEnabled(Scheduler)
  \/ GetNextQueueEntry(Scheduler)
  \/ DeleteQueueEntry(Scheduler)
  \/ CrawlUrlRefused(Scheduler)
  \/ UploadContent(Scheduler)
  \/ CreateCrawledPage(Scheduler)
  \/ UpsertCrawledPage(Scheduler)
  \/ IncrementCrawlStats(Scheduler)
  \/ IndexDocument(Scheduler)
  \/ CountCrawledPages(Scheduler)
  \/ LinkCheckAllowed(Scheduler)
  \/ LinkCheckExists(Scheduler)
  \/ LinkInsert(Scheduler)
  \/ LogCrawlError(Scheduler)
  \/ IncrementCrawlFailedStats(Scheduler)
  \/ RequeueWithRetry(Scheduler)
  \/ LoopIterate(Scheduler)
  \/ Wake(Scheduler)

SpecRefused == Init /\ [][NextRefused]_vars

----------------------------------------------------------------------------
(* One scheduler on tenant_a while the database may fail any query of the  *)
(* Discover stage: the count of crawled pages, the allow-list check, the   *)
(* existence check and the insert of the link row.                         *)

CountCrawledPagesFaulty(w) == enqueue_meet_links(w, BOOLEAN)

LinkCheckAllowedFaulty(w) == enqueue_link_allowed(w, BOOLEAN)

LinkCheckExistsFaulty(w) == enqueue_link_exists(w, BOOLEAN)

LinkInsertFaulty(w) == enqueue_link_insert(w, BOOLEAN)

NextDiscover ==
  \/ ClockTick
  \/ CheckCrawlingEnabled(Scheduler)
  \/ GetNextQueueEntry(Scheduler)
  \/ DeleteQueueEntry(Scheduler)
  \/ CrawlUrl(Scheduler)
  \/ UploadContent(Scheduler)
  \/ CreateCrawledPage(Scheduler)
  \/ UpsertCrawledPage(Scheduler)
  \/ IncrementCrawlStats(Scheduler)
  \/ IndexDocument(Scheduler)
  \/ CountCrawledPagesFaulty(Scheduler)
  \/ LinkCheckAllowedFaulty(Scheduler)
  \/ LinkCheckExistsFaulty(Scheduler)
  \/ LinkInsertFaulty(Scheduler)
  \/ LogCrawlError(Scheduler)
  \/ IncrementCrawlFailedStats(Scheduler)
  \/ RequeueWithRetry(Scheduler)
  \/ LoopIterate(Scheduler)
  \/ Wake(Scheduler)

SpecDiscover == Init /\ [][NextDiscover]_vars

----------------------------------------------------------------------------
(* One scheduler on tenant_a while the database may fail the queries of    *)
(* process_next_entry itself.                                              *)

(* process_next_entry: the query it awaits (is_crawling_enabled,           *)
(* get_next_queue_entry or delete_queue_entry) returns Err; the ? operator *)
(* makes it the Err of process_next_entry                                  *)
QueryError(w) ==
  /\ pc[w] \in {"start", "get", "lease"}
  /\ Return(w, "err")
  /\ call' = [call EXCEPT ![w] = Traced(w, <<"query_error">>)]
  /\ UNCHANGED <<now, config, sessions, served, magic_link_vars, invocations, db_vars, objects,
                 search_index, leases, api_response, local, attempts, successes,
                 next_rid, adds>>

NextLoop ==
  \/ Next
  \/ QueryError(Scheduler)

SpecLoop == Init /\ [][NextLoop]_vars

----------------------------------------------------------------------------
(* One scheduler on tenant_a while the admin API is in use: the allow-list *)
(* and the crawling_enabled setting change under the running pipeline, and *)
(* POST /queue/add admits rows.                                            *)

(* Inputs of POST /admin/allowed-domains and DELETE /admin/allowed-domains/{domain} *)
AdminDomains == {"", "a.test"}

(* CassandraClient::insert_allowed_domain *)
insert_allowed_domain(t, domain) == t \cup {domain}

(* CassandraClient::delete_allowed_domain *)
delete_allowed_domain(t, domain) == t \ {domain}

(* CassandraClient::set_crawling_enabled *)
set_crawling_enabled(enabled) == Some(IF enabled THEN "true" ELSE "false")

(* app.rs add_domain_handler; the model keeps the responses of            *)
(* POST /queue/add only                                                    *)
add_domain_handler(k, domain) ==
  /\ IF domain = "" THEN UNCHANGED allowed_domains
     ELSE allowed_domains' = [allowed_domains EXCEPT ![k] = insert_allowed_domain(@, domain)]
  /\ UNCHANGED <<now, config, queue, crawled_pages, crawl_errors, crawl_stats,
                 settings, objects, search_index, leases, api_response,
                 pc, ret, local, call, attempts, successes, next_rid>>

(* app.rs delete_domain_handler *)
delete_domain_handler(k, domain) ==
  /\ allowed_domains' = [allowed_domains EXCEPT ![k] = delete_allowed_domain(@, domain)]
  /\ UNCHANGED <<now, config, queue, crawled_pages, crawl_errors, crawl_stats,
                 settings, objects, search_index, leases, api_response,
                 pc, ret, local, call, attempts, successes, next_rid>>

(* app.rs set_crawling_enabled_handler *)
set_crawling_enabled_handler(k, enabled) ==
  /\ settings' = [settings EXCEPT ![k] = set_crawling_enabled(enabled)]
  /\ UNCHANGED <<now, config, queue, crawled_pages, crawl_errors, crawl_stats,
                 allowed_domains, objects, search_index, leases, api_response,
                 pc, ret, local, call, attempts, successes, next_rid>>

(* The admin requests in single-tenant mode: TenantDb is the base client *)
AddDomain ==
  /\ \E domain \in AdminDomains : add_domain_handler("tenant_a", domain)
  /\ UNCHANGED <<adds, sessions, served, magic_link_vars, invocations>>

DeleteDomain ==
  /\ \E domain \in AdminDomains : delete_domain_handler("tenant_a", domain)
  /\ UNCHANGED <<adds, sessions, served, magic_link_vars, invocations>>

SetCrawlingEnabled ==
  /\ \E enabled \in BOOLEAN : set_crawling_enabled_handler("tenant_a", enabled)
  /\ UNCHANGED <<adds, sessions, served, magic_link_vars, invocations>>

(* The pipeline reads allowed_domains in enqueue_link only and settings at *)
(* the start of process_next_entry only: an admin request served anywhere  *)
(* else in a call shows in the same reads as one served right before the   *)
(* next of these steps, so allow-list requests are taken between two calls *)
(* and inside enqueue_link, settings requests between two calls.           *)
ReadsAdmin == {"allow", "exists", "insert"}

AdminRequest ==
  \/ /\ BetweenCalls(Scheduler) \/ pc[Scheduler] \in ReadsAdmin
     /\ AddDomain \/ DeleteDomain
  \/ /\ BetweenCalls(Scheduler)
     /\ SetCrawlingEnabled

InitAdmin ==
  /\ Init
  /\ queue["tenant_a"] = {SeedNew}

NextAdmin ==
  \/ Next
  \/ ApiRequest
  \/ AdminRequest

SpecAdmin == InitAdmin /\ [][NextAdmin]_vars

----------------------------------------------------------------------------
(* One scheduler on tenant_a with a database that can fail the lookup of   *)
(* the prior page row and the pages_failed update. http://a.test/p was     *)
(* crawled twice by an earlier run and is in the queue again.              *)

(* The row the first and the second crawl of http://a.test/p left *)
PageFirst ==
  create_crawled_page(SeedNew, CrawlResult(TRUE, Some(DocPlain), None, None),
                      Some(-1), None, -20)

PageSecond ==
  create_crawled_page(SeedNew, CrawlResult(TRUE, Some(DocPlain), None, None),
                      Some(0), Some(PageFirst), -10)

InitFaults ==
  /\ now = 0
  /\ \E d \in Deployments :
       /\ d.rows = {SeedNew}
       /\ config = [environment |-> d.environment, has_storage |-> d.has_storage,
                    has_search |-> d.has_search]
       /\ settings = [k \in Keyspaces |-> IF k = "tenant_a" THEN d.setting ELSE None]
       /\ queue = [k \in Keyspaces |-> IF k = "tenant_a" THEN d.rows ELSE {}]
  /\ crawled_pages = [k \in Keyspaces |-> IF k = "tenant_a" THEN {PageSecond} ELSE {}]
  /\ crawl_errors = [k \in Keyspaces |-> {}]
  /\ crawl_stats = [k \in Keyspaces |->
                      [d \in Domains |-> [pages_crawled |-> 0, pages_failed |-> 0]]]
  /\ allowed_domains = [k \in Keyspaces |-> IF k = "tenant_a" THEN {"a.test"} ELSE {}]
  /\ objects = {[storage_id |-> -1, body |-> DocPlain], [storage_id |-> 0, body |-> DocPlain]}
  /\ search_index = {}
  /\ leases = {}
  /\ api_response = None
  /\ pc = [w \in Workers |-> "start"]
  /\ ret = [w \in Workers |-> "none"]
  /\ local = [w \in Workers |-> NoLocal]
  /\ call = [w \in Workers |-> NoCall]
  /\ attempts = [i \in {} |-> 0]
  /\ successes = (<<"tenant_a", UrlA_p>> :> 2)
  /\ next_rid = 1
  /\ adds = 0
  /\ sessions = NoSessions
  /\ magic_link_tokens = NoMagicLinkTokens
  /\ verifications = NoVerifications
  /\ served = None
  /\ invocations = <<>>

CreateCrawledPageFaulty(w) == lookup_crawled_page(w, BOOLEAN)

IncrementCrawlFailedStatsFaulty(w) == increment_crawl_failed_stats(w, BOOLEAN)

NextFaults ==
  \/ ClockTick
  \/ CheckCrawlingEnabled(Scheduler)
  \/ GetNextQueueEntry(Scheduler)
  \/ DeleteQueueEntry(Scheduler)
  \/ CrawlUrl(Scheduler)
  \/ UploadContent(Scheduler)
  \/ CreateCrawledPageFaulty(Scheduler)
  \/ UpsertCrawledPage(Scheduler)
  \/ IncrementCrawlStats(Scheduler)
  \/ IndexDocument(Scheduler)
  \/ CountCrawledPages(Scheduler)
  \/ LinkCheckAllowed(Scheduler)
  \/ LinkCheckExists(Scheduler)
  \/ LinkInsert(Scheduler)
  \/ LogCrawlError(Scheduler)
  \/ IncrementCrawlFailedStatsFaulty(Scheduler)
  \/ RequeueWithRetry(Scheduler)
  \/ LoopIterate(Scheduler)
  \/ Wake(Scheduler)

SpecFaults == InitFaults /\ [][NextFaults]_vars

----------------------------------------------------------------------------
(* One scheduler on tenant_a with a database that can fail each write of   *)
(* handle_crawl_failure: the crawl_errors row, the pages_failed update     *)
(* and the retry row.                                                      *)

LogCrawlErrorFaulty(w) == log_crawl_error(w, BOOLEAN)

RequeueWithRetryFaulty(w) == requeue_with_retry(w, BOOLEAN)

NextHandleFaults ==
  \/ ClockTick
  \/ CheckCrawlingEnabled(Scheduler)
  \/ GetNextQueueEntry(Scheduler)
  \/ DeleteQueueEntry(Scheduler)
  \/ CrawlUrl(Scheduler)
  \/ UploadContent(Scheduler)
  \/ CreateCrawledPage(Scheduler)
  \/ UpsertCrawledPage(Scheduler)
  \/ IncrementCrawlStats(Scheduler)
  \/ IndexDocument(Scheduler)
  \/ CountCrawledPages(Scheduler)
  \/ LinkCheckAllowed(Scheduler)
  \/ LinkCheckExists(Scheduler)
  \/ LinkInsert(Scheduler)
  \/ LogCrawlErrorFaulty(Scheduler)
  \/ IncrementCrawlFailedStatsFaulty(Scheduler)
  \/ RequeueWithRetryFaulty(Scheduler)
  \/ LoopIterate(Scheduler)
  \/ Wake(Scheduler)

SpecHandleFaults == Init /\ [][NextHandleFaults]_vars

----------------------------------------------------------------------------
(* Two schedulers on tenant_a (two worker processes polling the same       *)
(* keyspace) with the network down: every attempt is a fetch error. Their  *)
(* steps interleave in any order, each step one database query or one      *)
(* request.                                                                *)

(* Reads of the queue the two workers may make between them *)
TwoWorkerLeases == MaxLeases + 1

GetNextQueueEntryShared(w) == get_next_queue_entry(w, TwoWorkerLeases)

ClockTickShared ==
  /\ \E w \in Workers : BetweenCalls(w) \/ pc[w] \in ReadsClock
  /\ Tick

NextTwoWorkers ==
  \/ ClockTickShared
  \/ \E w \in Workers : CheckCrawlingEnabled(w)
  \/ \E w \in Workers : GetNextQueueEntryShared(w)
  \/ \E w \in Workers : DeleteQueueEntry(w)
  \/ \E w \in Workers : CrawlUrlFailing(w)
  \/ \E w \in Workers : LogCrawlError(w)
  \/ \E w \in Workers : IncrementCrawlFailedStats(w)
  \/ \E w \in Workers : RequeueWithRetry(w)
  \/ \E w \in Workers : LoopIterate(w)
  \/ \E w \in Workers : Wake(w)

SpecTwoWorkers == Init /\ [][NextTwoWorkers]_vars

----------------------------------------------------------------------------
(* One scheduler on tenant_a whose queue holds, next to the row of         *)
(* http://a.test/p, a row for http://a.test/q that is still pending: the   *)
(* Discover stage wrote it at time -1, when an earlier run crawled another *)
(* page with a link to /q.                                                 *)

SeedLinked ==
  [priority |-> 1, scheduled_at |-> -1, url |-> UrlA_q, domain |-> "a.test",
   last_attempt_at |-> None, attempt_count |-> 0, created_at |-> -1,
   rid |-> -6, origin |-> -6]

InitPending ==
  /\ now = 0
  /\ \E setting \in {Some("true"), Some("false")}, sr \in BOOLEAN :
       /\ config = [environment |-> "prod", has_storage |-> TRUE, has_search |-> sr]
       /\ settings = [k \in Keyspaces |->
                        IF k = "tenant_a" THEN setting ELSE Some("true")]
  /\ queue = [k \in Keyspaces |->
                IF k = "tenant_a" THEN {SeedNew, SeedLinked} ELSE {SeedOther}]
  /\ crawled_pages = [k \in Keyspaces |-> {}]
  /\ crawl_errors = [k \in Keyspaces |-> {}]
  /\ crawl_stats = [k \in Keyspaces |->
                      [d \in Domains |-> [pages_crawled |-> 0, pages_failed |-> 0]]]
  /\ allowed_domains = [k \in Keyspaces |->
                          IF k = "tenant_a" THEN {"a.test"} ELSE {"b.test"}]
  /\ objects = {}
  /\ search_index = {}
  /\ leases = {}
  /\ api_response = None
  /\ pc = [w \in Workers |-> "start"]
  /\ ret = [w \in Workers |-> "none"]
  /\ local = [w \in Workers |-> NoLocal]
  /\ call = [w \in Workers |-> NoCall]
  /\ attempts = [i \in {} |-> 0]
  /\ successes = [i \in {} |-> 0]
  /\ next_rid = 1
  /\ adds = 0
  /\ sessions = NoSessions
  /\ magic_link_tokens = NoMagicLinkTokens
  /\ verifications = NoVerifications
  /\ served = None
  /\ invocations = <<>>

SpecPending == InitPending /\ [][Next]_vars

----------------------------------------------------------------------------
(* One fair scheduler on tenant_a, crawling enabled, no producer but the   *)
(* pipeline itself. http://a.test/q was crawled by an earlier run, so the  *)
(* pages of the model link to crawled pages (/q, and the page itself), to  *)
(* a host off the allow-list (b.test) or to nothing that can be enqueued.  *)
(* At every attempt the fetch and each later stage fail or succeed as they *)
(* like. No link of a page reaches the insert of enqueue_link.             *)

PageQ ==
  create_crawled_page(SeedLinked, CrawlResult(TRUE, Some(DocPlain), None, None),
                      Some(-1), None, -1)

(* Without a storage client every attempt fails, in the fetch or in the    *)
(* upload: these deployments start from rows that were never tried. With   *)
(* one, an attempt can succeed: these start from rows at their fifth and   *)
(* sixth attempt.                                                          *)
RetryDeployments ==
  {[has_storage |-> FALSE, has_search |-> FALSE, rows |-> {SeedNew}],
   [has_storage |-> TRUE, has_search |-> TRUE, rows |-> {SeedFourth}],
   [has_storage |-> TRUE, has_search |-> TRUE, rows |-> {SeedBad, SeedFifth}]}

(* The request of the page fails in the network or is answered with the    *)
(* plain page; the request of robots.txt fails, which allows the page      *)
PlainPage ==
  {p \in PageResponses :
     p.kind = "network_error" \/ (p.status = 200 /\ p.header = None /\ p.doc = Some(DocPlain))}

CrawlUrlPlain(w) == process_crawl_entry_fetch(w, NetworkDown, PlainPage)

InitRetries ==
  /\ now = 0
  /\ \E d \in RetryDeployments :
       /\ config = [environment |-> "prod", has_storage |-> d.has_storage,
                    has_search |-> d.has_search]
       /\ queue = [k \in Keyspaces |-> IF k = "tenant_a" THEN d.rows ELSE {SeedOther}]
  /\ settings = [k \in Keyspaces |-> Some("true")]
  /\ crawled_pages = [k \in Keyspaces |-> IF k = "tenant_a" THEN {PageQ} ELSE {}]
  /\ crawl_errors = [k \in Keyspaces |-> {}]
  /\ crawl_stats = [k \in Keyspaces |->
                      [d \in Domains |-> [pages_crawled |-> 0, pages_failed |-> 0]]]
  /\ allowed_domains = [k \in Keyspaces |->
                          IF k = "tenant_a" THEN {"a.test"} ELSE {"b.test"}]
  /\ objects = {[storage_id |-> -1, body |-> DocPlain]}
  /\ search_index = {}
  /\ leases = {}
  /\ api_response = None
  /\ pc = [w \in Workers |-> "start"]
  /\ ret = [w \in Workers |-> "none"]
  /\ local = [w \in Workers |-> NoLocal]
  /\ call = [w \in Workers |-> NoCall]
  /\ attempts = [i \in {} |-> 0]
  /\ successes = [i \in {} |-> 0]
  /\ next_rid = 1
  /\ adds = 0
  /\ sessions = NoSessions
  /\ magic_link_tokens = NoMagicLinkTokens
  /\ verifications = NoVerifications
  /\ served = None
  /\ invocations = <<>>

(* The steps of the scheduler task *)
SchedulerStep ==
  \/ CheckCrawlingEnabled(Scheduler)
  \/ GetNextQueueEntryFailing(Scheduler)
  \/ DeleteQueueEntry(Scheduler)
  \/ CrawlUrlPlain(Scheduler)
  \/ UploadContent(Scheduler)
  \/ CreateCrawledPage(Scheduler)
  \/ UpsertCrawledPage(Scheduler)
  \/ IncrementCrawlStats(Scheduler)
  \/ IndexDocument(Scheduler)
  \/ CountCrawledPages(Scheduler)
  \/ LinkCheckAllowed(Scheduler)
  \/ LinkCheckExists(Scheduler)
  \/ LogCrawlError(Scheduler)
  \/ IncrementCrawlFailedStats(Scheduler)
  \/ RequeueWithRetry(Scheduler)
  \/ LoopIterate(Scheduler)
  \/ Wake(Scheduler)

NextRetries ==
  \/ ClockTick
  \/ SchedulerStep

(* The tokio runtime keeps polling the spawned task: a step the scheduler  *)
(* can take is taken                                                       *)
SpecRetries == InitRetries /\ [][NextRetries]_vars /\ WF_vars(SchedulerStep)

----------------------------------------------------------------------------
(* The HTTP server (app.rs): every request goes through the extractors of  *)
(* its handler, then through the handler. No scheduler runs here.          *)

Tokens == {"tok_a", "tok_b", "tok_old", "tok_gone", "tok_unknown"}

(* the lala_session cookie of a request, if it carries one *)
Cookies == {None} \cup {Some(t) : t \in Tokens}

(* AuthService::hash_token: sessions are stored under the SHA-256 of the token *)
hash_token(token) == <<"sha256", token>>

(* users and org_memberships of the auth keyspace: u3 is a user who is no  *)
(* longer a member of tenant_a                                             *)
Users == {"u1", "u2", "u3"}

OrgMemberships == {<<"tenant_a", "u1">>, <<"tenant_b", "u2">>}

(* The sessions stored at startup: tok_old expires first, tok_gone was     *)
(* opened by u3 in tenant_a, tok_unknown is not stored                     *)
StoredSessions ==
  (hash_token("tok_a") :> [tenant_id |-> "tenant_a", user_id |-> "u1", expires_at |-> 8])
  @@ (hash_token("tok_b") :> [tenant_id |-> "tenant_b", user_id |-> "u2", expires_at |-> 8])
  @@ (hash_token("tok_old") :> [tenant_id |-> "tenant_a", user_id |-> "u1", expires_at |-> 0])
  @@ (hash_token("tok_gone") :> [tenant_id |-> "tenant_a", user_id |-> "u3", expires_at |-> 8])

(* Session::is_expired *)
is_expired(session) == session.expires_at < now

(* AuthService::validate_session with the auth database answering: what it *)
(* returns and the sessions table it leaves (touch_session only updates    *)
(* last_active_at, which the model does not keep)                          *)
validate_session(session_token) ==
  LET session_hash == hash_token(session_token) IN
  IF session_hash \notin DOMAIN sessions THEN
    [kind |-> "none", tenant_id |-> "", sessions |-> sessions]
  ELSE IF is_expired(sessions[session_hash]) THEN
    [kind |-> "none", tenant_id |-> "",
     sessions |-> [h \in DOMAIN sessions \ {session_hash} |-> sessions[h]]]
  ELSE IF sessions[session_hash].user_id \notin Users THEN
    [kind |-> "err", tenant_id |-> "", sessions |-> sessions]
  ELSE IF <<sessions[session_hash].tenant_id, sessions[session_hash].user_id>>
            \notin OrgMemberships THEN
    [kind |-> "err", tenant_id |-> "", sessions |-> sessions]
  ELSE
    [kind |-> "user", tenant_id |-> sessions[session_hash].tenant_id,
     sessions |-> sessions]

(* AppState.db_client *)
BaseClient == [session |-> "pool", keyspace |-> "tenant_a"]

(* CassandraClient::with_keyspace *)
with_keyspace(self, keyspace) == [session |-> self.session, keyspace |-> keyspace]

Rejection(status, sessions_after) ==
  [ok |-> FALSE, status |-> status, client |-> None, sessions |-> sessions_after]

(* app.rs resolve_multi_tenant_db *)
resolve_multi_tenant_db(cookie) ==
  IF ~config.has_auth THEN Rejection(503, sessions)
  ELSE IF ~IsSome(cookie) THEN Rejection(401, sessions)
  ELSE
    LET auth_user == validate_session(Unwrap(cookie)) IN
    IF auth_user.kind = "err" THEN Rejection(500, auth_user.sessions)
    ELSE IF auth_user.kind = "none" THEN Rejection(401, auth_user.sessions)
    ELSE [ok |-> TRUE, status |-> 200,
          client |-> Some(with_keyspace(BaseClient, auth_user.tenant_id)),
          sessions |-> auth_user.sessions]

(* app.rs TenantDb::from_request_parts *)
from_request_parts(cookie) ==
  IF config.deployment_mode = "single_tenant"
    THEN [ok |-> TRUE, status |-> 200, client |-> Some(BaseClient),
          sessions |-> sessions]
    ELSE resolve_multi_tenant_db(cookie)

(* app.rs create_router: the routes, and the ones whose handler takes the  *)
(* TenantDb extractor                                                      *)
Routes ==
  {"version", "queue_add", "search", "add_domain", "list_domains",
   "delete_domain", "get_crawling_enabled", "set_crawling_enabled"}

TenantDbRoutes == Routes \ {"version", "search"}

(* app.rs search_handler and version_handler: State(state) is their only   *)
(* extractor; SearchClient::search queries the one index with the query of *)
(* the request and no filter                                               *)
serve_without_tenant_db(route, cookie) ==
  /\ served' = Some(
       [route |-> route, cookie |-> cookie,
        status |-> IF route = "search" /\ ~config.has_search THEN 503 ELSE 200,
        keyspace |-> None,
        body |-> IF route = "search" /\ config.has_search
                   THEN search_index ELSE {}])
  /\ adds' = adds + 1
  /\ UNCHANGED <<now, config, db_vars, objects, search_index, leases, api_response,
                 pc, ret, local, call, attempts, successes, next_rid, sessions>>

(* A handler that takes TenantDb(db): the extractor runs first, and its    *)
(* rejection is the response                                               *)
serve_with_tenant_db(route, cookie) ==
  LET tenant_db == from_request_parts(cookie) IN
  /\ sessions' = tenant_db.sessions
  /\ IF ~tenant_db.ok THEN
       /\ served' = Some([route |-> route, cookie |-> cookie,
                          status |-> tenant_db.status, keyspace |-> None,
                          body |-> {}])
       /\ adds' = adds + 1
       /\ UNCHANGED <<now, config, db_vars, objects, search_index, leases,
                      api_response, pc, ret, local, call, attempts, successes,
                      next_rid>>
     ELSE
       LET k == Unwrap(tenant_db.client).keyspace IN
       /\ served' = Some([route |-> route, cookie |-> cookie, status |-> 200,
                          keyspace |-> Some(k),
                          body |-> IF route = "list_domains" THEN allowed_domains[k]
                                   ELSE IF route = "get_crawling_enabled"
                                     THEN {is_crawling_enabled(k)}
                                   ELSE {}])
       /\ CASE route = "queue_add" ->
                 \E url \in ApiUrls, priority \in ApiPriorities :
                   add_to_queue_handler(k, url, priority)
            [] route = "add_domain" ->
                 /\ \E domain \in AdminDomains : add_domain_handler(k, domain)
                 /\ adds' = adds + 1
            [] route = "delete_domain" ->
                 /\ \E domain \in AdminDomains : delete_domain_handler(k, domain)
                 /\ adds' = adds + 1
            [] route = "set_crawling_enabled" ->
                 /\ \E enabled \in BOOLEAN : set_crawling_enabled_handler(k, enabled)
                 /\ adds' = adds + 1
            [] OTHER ->
                 /\ adds' = adds + 1
                 /\ UNCHANGED <<now, config, db_vars, objects, search_index, leases,
                                api_response, pc, ret, local, call, attempts,
                                successes, next_rid>>

(* One request; the model serves MaxAdds of them *)
ServeRequest ==
  /\ adds < MaxAdds
  /\ UNCHANGED <<invocations, magic_link_vars>>
  /\ \E route \in Routes, cookie \in Cookies :
    IF route \in TenantDbRoutes THEN serve_with_tenant_db(route, cookie)
    ELSE serve_without_tenant_db(route, cookie)

(* The documents an earlier crawl of each tenant left in the search index *)
StoredDocuments ==
  {[id |-> doc_id(Some(k), Url(h, "/p")), tenant_id |-> Some(k),
    url |-> Url(h, "/p"), domain |-> h, crawled_at |-> -10, http_status |-> 200] :
     <<k, h>> \in {<<"tenant_a", "a.test">>, <<"tenant_b", "b.test">>}}

(* DEPLOYMENT_MODE, and whether main.rs built the auth state and the search client *)
ServerDeployments ==
  {[deployment_mode |-> "single_tenant", has_auth |-> FALSE, has_search |-> TRUE],
   [deployment_mode |-> "multi_tenant", has_auth |-> FALSE, has_search |-> TRUE],
   [deployment_mode |-> "multi_tenant", has_auth |-> TRUE, has_search |-> TRUE],
   [deployment_mode |-> "multi_tenant", has_auth |-> TRUE, has_search |-> FALSE]}

InitTenant ==
  /\ now = 0
  /\ \E d \in ServerDeployments :
       config = [environment |-> "prod", has_storage |-> TRUE,
                 has_search |-> d.has_search, has_auth |-> d.has_auth,
                 deployment_mode |-> d.deployment_mode]
  /\ settings = [k \in Keyspaces |-> None]
  /\ queue = [k \in Keyspaces |-> {}]
  /\ crawled_pages = [k \in Keyspaces |-> {}]
  /\ crawl_errors = [k \in Keyspaces |-> {}]
  /\ crawl_stats = [k \in Keyspaces |->
                      [d \in Domains |-> [pages_crawled |-> 0, pages_failed |-> 0]]]
  /\ allowed_domains = [k \in Keyspaces |->
                          IF k = "tenant_a" THEN {"a.test"} ELSE {"b.test"}]
  /\ objects = {}
  /\ search_index = StoredDocuments
  /\ leases = {}
  /\ api_response = None
  /\ pc = [w \in Workers |-> "start"]
  /\ ret = [w \in Workers |-> "none"]
  /\ local = [w \in Workers |-> NoLocal]
  /\ call = [w \in Workers |-> NoCall]
  /\ attempts = [i \in {} |-> 0]
  /\ successes = [i \in {} |-> 0]
  /\ next_rid = 1
  /\ adds = 0
  /\ sessions = StoredSessions
  /\ magic_link_tokens = NoMagicLinkTokens
  /\ verifications = NoVerifications
  /\ served = None
  /\ invocations = <<>>

NextTenant ==
  \/ Tick
  \/ ServeRequest

SpecTenant == InitTenant /\ [][NextTenant]_vars

----------------------------------------------------------------------------
(* Search document ids: the queue processors of several tenants index into *)
(* one search index, each with its own tenant_id                           *)

(* The most documents the index of the model holds *)
MaxDocs == 2

(* tenant_id of the queue processors *)
TenantIds == {"tenant_a", "tenant_ab", "tenant_b"}

(* "bhttp://a.test/p": Url::parse accepts it, with the host a.test *)
UrlA_p_bhttp == [scheme |-> "bhttp", host |-> "a.test", path |-> "/p"]

(* entry.url of the rows the processors take *)
EntryUrls == {UrlA_p, UrlA_q, UrlB_x, UrlA_p_bhttp}

(* index_document_to_search of the processor of tenant tid for the row of  *)
(* url, crawled now                                                        *)
index_document_to_search(tid, url) ==
  LET indexed_doc == IndexedDocument(Some(tid), url, url.host,
                       [last_crawled_at |-> now, http_status |-> 200])
  IN /\ Cardinality(index_document(search_index, indexed_doc)) <= MaxDocs
     /\ search_index' = index_document(search_index, indexed_doc)
     /\ UNCHANGED <<now, config, sessions, served, magic_link_vars, invocations, db_vars, objects, leases,
                    api_response, pc, ret, local, call, attempts, successes,
                    next_rid, adds>>

IndexEntry == \E tid \in TenantIds, url \in EntryUrls : index_document_to_search(tid, url)

InitIndex ==
  /\ now = 0
  /\ config = [environment |-> "prod", has_storage |-> TRUE, has_search |-> TRUE,
               has_auth |-> TRUE, deployment_mode |-> "multi_tenant"]
  /\ settings = [k \in Keyspaces |-> None]
  /\ queue = [k \in Keyspaces |-> {}]
  /\ crawled_pages = [k \in Keyspaces |-> {}]
  /\ crawl_errors = [k \in Keyspaces |-> {}]
  /\ crawl_stats = [k \in Keyspaces |->
                      [d \in Domains |-> [pages_crawled |-> 0, pages_failed |-> 0]]]
  /\ allowed_domains = [k \in Keyspaces |-> {}]
  /\ objects = {}
  /\ search_index = {}
  /\ leases = {}
  /\ api_response = None
  /\ pc = [w \in Workers |-> "start"]
  /\ ret = [w \in Workers |-> "none"]
  /\ local = [w \in Workers |-> NoLocal]
  /\ call = [w \in Workers |-> NoCall]
  /\ attempts = [i \in {} |-> 0]
  /\ successes = [i \in {} |-> 0]
  /\ next_rid = 1
  /\ adds = 0
  /\ sessions = NoSessions
  /\ magic_link_tokens = NoMagicLinkTokens
  /\ verifications = NoVerifications
  /\ served = None
  /\ invocations = <<>>

NextIndex ==
  \/ Tick
  \/ IndexEntry

SpecIndex == InitIndex /\ [][NextIndex]_vars

----------------------------------------------------------------------------
(* Storage client (services/storage.rs, models/storage.rs): upload_content *)
(* and get_content on the bucket. Content and object data are sequences    *)
(* of bytes.                                                               *)

(* The longest content of the model *)
MaxLen == 2

(* The most calls on the storage client *)
MaxCalls == 2

(* The bytes a String is made of, and the contents handed to upload_content *)
Utf8 == {"a", "b"}

RECURSIVE Strings(_)
Strings(n) ==
  IF n = 0 THEN {<<>>}
  ELSE Strings(n - 1) \cup {Append(t, c) : t \in {u \in Strings(n - 1) : Len(u) = n - 1}, c \in Utf8}

Contents == Strings(MaxLen)

(* S3_COMPRESS_CONTENT and S3_COMPRESS_MIN_SIZE *)
S3Configs == [compress_content : BOOLEAN, compress_min_size : {0, 1}]

Ok(v) == [ok |-> TRUE, value |-> v]

Err(e) == [ok |-> FALSE, value |-> e]

(* The gzip member flate2 writes: the magic bytes 1f 8b, then the deflated *)
(* data, here each run of equal bytes as the byte and the length of the run *)
RECURSIVE deflate(_)
deflate(data) ==
  IF data = <<>> THEN <<>>
  ELSE LET rest == deflate(Tail(data)) IN
       IF rest # <<>> /\ rest[1][1] = Head(data)
         THEN <<(<<Head(data), rest[1][2] + 1>>)>> \o Tail(rest)
         ELSE <<(<<Head(data), 1>>)>> \o rest

RECURSIVE inflate(_)
inflate(runs) ==
  IF runs = <<>> THEN <<>>
  ELSE [i \in 1..runs[1][2] |-> runs[1][1]] \o inflate(Tail(runs))

(* A compress that stores the data as it is *)
compress_stored(data) == data

(* StorageClient::compress *)
compress(data) == <<"1f", "8b">> \o deflate(data)

(* StorageClient::decompress: fails on data that is no gzip member *)
decompress(data) ==
  IF Len(data) >= 2 /\ data[1] = "1f" /\ data[2] = "8b"
    THEN Ok(inflate(SubSeq(data, 3, Len(data))))
    ELSE Err("Failed to decompress")

(* String::from_utf8 *)
from_utf8(bytes) ==
  IF \A i \in DOMAIN bytes : bytes[i] \in Utf8 THEN Ok(bytes) ELSE Err("Invalid UTF-8")

(* CompressionType::file_extension *)
file_extension(compression_type) ==
  IF compression_type = "Gzip" THEN "html.gz" ELSE "html"

(* CompressionType::content_type *)
content_type(compression_type) ==
  IF compression_type = "Gzip" THEN "application/gzip" ELSE "text/html"

(* the compression upload_content chooses *)
choose_compression(content) ==
  IF config.compress_content /\ Len(content) > config.compress_min_size
    THEN "Gzip" ELSE "None"

(* format!("{}.{}", storage_id, compression_type.file_extension()) *)
object_key(storage_id, compression_type) ==
  <<storage_id, file_extension(compression_type)>>

(* Bucket::put_object_with_content_type *)
put_object(bucket, key, data, ctype) ==
  {o \in bucket : o.key # key} \cup {[key |-> key, data |-> data, content_type |-> ctype]}

(* StorageClient::get_content *)
get_content(storage_id, compression_type) ==
  LET key == object_key(storage_id, compression_type)
      found == {o \in objects : o.key = key}
  IN IF found = {} THEN Err("Failed to get object from S3")
     ELSE LET response == CHOOSE o \in found : TRUE IN
          IF compression_type = "Gzip" THEN
            LET decompressed == decompress(response.data) IN
            IF decompressed.ok THEN from_utf8(decompressed.value) ELSE decompressed
          ELSE from_utf8(response.data)

StorageUnchanged ==
  UNCHANGED <<now, config, sessions, served, magic_link_vars, db_vars, search_index, leases,
              api_response, pc, ret, local, call, attempts, successes,
              next_rid, adds>>

(* StorageClient::upload_content; the put may fail *)
upload_content(content) ==
  LET storage_id == new_storage_id
      compression_type == choose_compression(content)
      data == IF compression_type = "Gzip" THEN compress(content) ELSE content
      key == object_key(storage_id, compression_type)
  IN \/ /\ objects' = put_object(objects, key, data, content_type(compression_type))
        /\ invocations' = Append(invocations,
             [op |-> "upload_content", content |-> content,
              result |-> Ok(<<storage_id, compression_type>>)])
     \/ /\ objects' = objects
        /\ invocations' = Append(invocations,
             [op |-> "upload_content", content |-> content,
              result |-> Err("Failed to upload to S3")])

UploadContentCall ==
  /\ Len(invocations) < MaxCalls
  /\ \E content \in Contents : upload_content(content)
  /\ StorageUnchanged

GetContentCall ==
  /\ Len(invocations) < MaxCalls
  /\ \E storage_id \in 1..MaxCalls, compression_type \in {"None", "Gzip"} :
       invocations' = Append(invocations,
         [op |-> "get_content", storage_id |-> storage_id,
          compression_type |-> compression_type,
          result |-> get_content(storage_id, compression_type)])
  /\ UNCHANGED objects
  /\ StorageUnchanged

InitStorage ==
  /\ now = 0
  /\ \E c \in S3Configs :
       config = [environment |-> "prod", has_storage |-> TRUE, has_search |-> FALSE,
                 compress_content |-> c.compress_content,
                 compress_min_size |-> c.compress_min_size]
  /\ settings = [k \in Keyspaces |-> None]
  /\ queue = [k \in Keyspaces |-> {}]
  /\ crawled_pages = [k \in Keyspaces |-> {}]
  /\ crawl_errors = [k \in Keyspaces |-> {}]
  /\ crawl_stats = [k \in Keyspaces |->
                      [d \in Domains |-> [pages_crawled |-> 0, pages_failed |-> 0]]]
  /\ allowed_domains = [k \in Keyspaces |-> {}]
  /\ objects = {}
  /\ search_index = {}
  /\ leases = {}
  /\ api_response = None
  /\ pc = [w \in Workers |-> "start"]
  /\ ret = [w \in Workers |-> "none"]
  /\ local = [w \in Workers |-> NoLocal]
  /\ call = [w \in Workers |-> NoCall]
  /\ attempts = [i \in {} |-> 0]
  /\ successes = [i \in {} |-> 0]
  /\ next_rid = 1
  /\ adds = 0
  /\ sessions = NoSessions
  /\ magic_link_tokens = NoMagicLinkTokens
  /\ verifications = NoVerifications
  /\ served = None
  /\ invocations = <<>>

NextStorage ==
  \/ UploadContentCall
  \/ GetContentCall

SpecStorage == InitStorage /\ [][NextStorage]_vars

----------------------------------------------------------------------------
(* Robots directives of a fetched page: get_robots_directives on the       *)
(* robots meta tag of the document and the X-Robots-Tag header, each       *)
(* missing or written from a set of tokens.                                *)

(* The tokens of a directive string, in the order they are written *)
DirectiveTokens == <<"index, follow", "noindex", "nofollow", "NOFOLLOW", "none">>

TokenText(token) ==
  CASE token = "index, follow" -> S_index_follow
    [] token = "noindex" -> S_noindex
    [] token = "nofollow" -> S_nofollow
    [] token = "NOFOLLOW" -> S_NOFOLLOW_upper
    [] token = "none" -> S_none

(* The directive strings of the model hold at most two tokens *)
TokenSets == {ts \in SUBSET Range(DirectiveTokens) : Cardinality(ts) <= 2}

(* The text of a content attribute or header value: the tokens with ", "   *)
(* between them                                                            *)
RECURSIVE directive_string(_, _)
directive_string(tokens, i) ==
  IF i > Len(DirectiveTokens) THEN <<>>
  ELSE LET rest == directive_string(tokens, i + 1) IN
       IF DirectiveTokens[i] \notin tokens THEN rest
       ELSE IF rest = <<>> THEN TokenText(DirectiveTokens[i])
       ELSE TokenText(DirectiveTokens[i]) \o <<",", " ">> \o rest

(* The document with the robots meta tag of the given tokens, or with none *)
robots_html(meta) ==
  [metas |-> IF IsSome(meta)
               THEN <<Meta(S_description, S_noindex),
                      Meta(S_ROBOTS_upper, directive_string(Unwrap(meta), 1))>>
               ELSE <<Meta(S_description, S_noindex)>>,
   anchors |-> <<>>]

(* One call of get_robots_directives *)
GetRobotsDirectivesCall ==
  /\ invocations = <<>>
  /\ \E meta \in {None} \cup {Some(ts) : ts \in TokenSets},
        header \in {None} \cup {Some(ts) : ts \in TokenSets} :
       LET html == robots_html(meta)
           x_robots_tag == IF IsSome(header)
                             THEN Some(directive_string(Unwrap(header), 1)) ELSE None
       IN invocations' = <<[op |-> "get_robots_directives",
                            meta |-> meta, header |-> header,
                            html |-> html, x_robots_tag |-> x_robots_tag,
                            meta_directives |-> extract_robots_meta_directives(html),
                            header_directives |-> parse_x_robots_tag(x_robots_tag),
                            result |-> get_robots_directives(html, x_robots_tag)]>>
  /\ UNCHANGED <<now, config, sessions, served, magic_link_vars, db_vars, objects, search_index,
                 leases, api_response, pc, ret, local, call, attempts, successes,
                 next_rid, adds>>

NextDirectives == GetRobotsDirectivesCall

SpecDirectives == InitIndex /\ [][NextDirectives]_vars

----------------------------------------------------------------------------
(* Startup: main reads the environment, makes sure the default tenant row  *)
(* is in the tenants table of the system keyspace, and starts the queue    *)
(* processor.                                                              *)

AgentModes == {"worker", "manager", "all"}

DeploymentModes == {"single_tenant", "multi_tenant"}

should_process_queue(agent_mode) == agent_mode \in {"worker", "all"}

(* INSERT ... IF NOT EXISTS into the tenants table *)
ensure_default_tenant(tenants, tenant_keyspace) == tenants \cup {tenant_keyspace}

(* SELECT tenant_id FROM tenants *)
list_tenant_keyspaces(tenants) == tenants

(* The processors start_queue_processor_if_needed builds and spawns, in    *)
(* the order of the spawns: a processor is the clients it holds            *)
start_queue_processor_if_needed(agent_mode, cfg) ==
  IF ~should_process_queue(agent_mode) THEN <<>>
  ELSE <<[db_client |-> cfg.keyspace,
          search_client |-> cfg.has_search,
          storage_client |-> cfg.has_storage]>>

(* main, up to the start of the HTTP server; an error of                   *)
(* ensure_default_tenant is printed and the startup goes on                *)
Main ==
  /\ invocations = <<>>
  /\ \E insert_fails \in BOOLEAN :
       invocations' =
         <<[op |-> "main",
            tenants |-> IF insert_fails THEN config.tenants
                        ELSE ensure_default_tenant(config.tenants, config.keyspace),
            spawned |-> start_queue_processor_if_needed(config.agent_mode, config)]>>
  /\ UNCHANGED <<now, config, sessions, served, magic_link_vars, db_vars, objects, search_index,
                 leases, api_response, pc, ret, local, call, attempts, successes,
                 next_rid, adds>>

(* The environment (AGENT_MODE, DEPLOYMENT_MODE, CASSANDRA_KEYSPACE, the   *)
(* search and storage clients that could be built) and the tenants table   *)
(* the process finds                                                       *)
InitStartup ==
  /\ now = 0
  /\ \E am \in AgentModes, dm \in DeploymentModes, ks \in Keyspaces,
        ts \in SUBSET TenantIds, st \in BOOLEAN, sr \in BOOLEAN :
       config = [environment |-> "prod", has_storage |-> st, has_search |-> sr,
                 agent_mode |-> am, deployment_mode |-> dm, keyspace |-> ks,
                 tenants |-> ts]
  /\ settings = [k \in Keyspaces |-> None]
  /\ queue = [k \in Keyspaces |-> {}]
  /\ crawled_pages = [k \in Keyspaces |-> {}]
  /\ crawl_errors = [k \in Keyspaces |-> {}]
  /\ crawl_stats = [k \in Keyspaces |->
                      [d \in Domains |-> [pages_crawled |-> 0, pages_failed |-> 0]]]
  /\ allowed_domains = [k \in Keyspaces |-> {}]
  /\ objects = {}
  /\ search_index = {}
  /\ leases = {}
  /\ api_response = None
  /\ pc = [w \in Workers |-> "start"]
  /\ ret = [w \in Workers |-> "none"]
  /\ local = [w \in Workers |-> NoLocal]
  /\ call = [w \in Workers |-> NoCall]
  /\ attempts = [i \in {} |-> 0]
  /\ successes = [i \in {} |-> 0]
  /\ next_rid = 1
  /\ adds = 0
  /\ sessions = NoSessions
  /\ magic_link_tokens = NoMagicLinkTokens
  /\ verifications = NoVerifications
  /\ served = None
  /\ invocations = <<>>

NextStartup == Main

SpecStartup == InitStartup /\ [][NextStartup]_vars

----------------------------------------------------------------------------
(* The settings gate by itself: calls of set_crawling_enabled and          *)
(* is_crawling_enabled on the clients of the tenant keyspaces.             *)

(* setting_value of the crawling_enabled row as a process may find it: the *)
(* column is text, and rows written by hand need not be "true" or "false"  *)
StoredSettings == {None, Some("true"), Some("false"), Some("TRUE")}

SetCrawlingEnabledCall ==
  /\ Len(invocations) < MaxCalls
  /\ \E k \in Keyspaces, enabled \in BOOLEAN :
       /\ settings' = [settings EXCEPT ![k] = set_crawling_enabled(enabled)]
       /\ invocations' = Append(invocations,
            [op |-> "set_crawling_enabled", keyspace |-> k, enabled |-> enabled])
  /\ UNCHANGED <<now, config, sessions, served, magic_link_vars, queue, crawled_pages, crawl_errors,
                 crawl_stats, allowed_domains, objects, search_index, leases,
                 api_response, pc, ret, local, call, attempts, successes,
                 next_rid, adds>>

IsCrawlingEnabledCall ==
  /\ Len(invocations) < MaxCalls
  /\ \E k \in Keyspaces :
       invocations' = Append(invocations,
         [op |-> "is_crawling_enabled", keyspace |-> k,
          result |-> is_crawling_enabled(k)])
  /\ UNCHANGED <<now, config, sessions, served, magic_link_vars, db_vars, objects, search_index,
                 leases, api_response, pc, ret, local, call, attempts, successes,
                 next_rid, adds>>

InitSettings ==
  /\ now = 0
  /\ \E env \in {"dev", "prod"}, stored \in [Keyspaces -> StoredSettings] :
       /\ config = [environment |-> env, has_storage |-> TRUE, has_search |-> TRUE,
                    stored |-> stored]
       /\ settings = stored
  /\ queue = [k \in Keyspaces |-> {}]
  /\ crawled_pages = [k \in Keyspaces |-> {}]
  /\ crawl_errors = [k \in Keyspaces |-> {}]
  /\ crawl_stats = [k \in Keyspaces |->
                      [d \in Domains |-> [pages_crawled |-> 0, pages_failed |-> 0]]]
  /\ allowed_domains = [k \in Keyspaces |-> {}]
  /\ objects = {}
  /\ search_index = {}
  /\ leases = {}
  /\ api_response = None
  /\ pc = [w \in Workers |-> "start"]
  /\ ret = [w \in Workers |-> "none"]
  /\ local = [w \in Workers |-> NoLocal]
  /\ call = [w \in Workers |-> NoCall]
  /\ attempts = [i \in {} |-> 0]
  /\ successes = [i \in {} |-> 0]
  /\ next_rid = 1
  /\ adds = 0
  /\ sessions = NoSessions
  /\ magic_link_tokens = NoMagicLinkTokens
  /\ verifications = NoVerifications
  /\ served = None
  /\ invocations = <<>>

NextSettings ==
  \/ SetCrawlingEnabledCall
  \/ IsCrawlingEnabledCall

SpecSettings == InitSettings /\ [][NextSettings]_vars

(***************************************************************************)
(* Magic links: two GET /auth/verify/{token} requests served concurrently. *)
(* Each await of AuthService::verify_magic_link is one step of a request.  *)
(***************************************************************************)

MagicTokens == {"mt_a", "mt_short", "mt_used", "mt_unknown"}

session_max_age_days == 365

(* The magic link rows stored at startup: mt_short expires first, mt_used  *)
(* was verified before, mt_unknown is not stored                           *)
StoredMagicLinkTokens ==
  (hash_token("mt_a") :> [email |-> "u1@a.test", tenant_id |-> None,
                          expires_at |-> 8, used |-> FALSE])
  @@ (hash_token("mt_short") :> [email |-> "u2@b.test", tenant_id |-> Some("tenant_b"),
                                 expires_at |-> 0, used |-> FALSE])
  @@ (hash_token("mt_used") :> [email |-> "u1@a.test", tenant_id |-> None,
                                expires_at |-> 8, used |-> TRUE])

(* get_user_by_email over the users table *)
get_user_by_email(email) ==
  IF email = "u1@a.test" THEN "u1" ELSE "u2"

(* MagicLinkToken::is_expired *)
magic_link_is_expired(magic_token) == magic_token.expires_at < now

(* MagicLinkToken::is_valid *)
is_valid(magic_token) == ~magic_token.used /\ ~magic_link_is_expired(magic_token)

AtVerification(r, at) == verifications[r].at = at

(* AuthDbClient::mark_magic_link_used: an UPDATE with no condition on used *)
mark_magic_link_used(token_hash) ==
  magic_link_tokens' = [magic_link_tokens EXCEPT ![token_hash].used = TRUE]

(* AuthDbClient::create_session *)
create_session(session_id_hash, user_id, session_tenant, expires_at) ==
  sessions' = (session_id_hash :> [tenant_id |-> session_tenant, user_id |-> user_id,
                                   expires_at |-> expires_at]) @@ sessions

(* AuthService::generate_token: 32 random bytes, fresh for every call *)
generate_token(r) == <<"generated", r>>

(* verify_magic_link up to its first write: get_magic_link_token and is_valid *)
VerifyGetToken(r) ==
  /\ AtVerification(r, "idle")
  /\ \E token \in MagicTokens :
       LET token_hash == hash_token(token) IN
       verifications' = [verifications EXCEPT ![r] =
         IF token_hash \notin DOMAIN magic_link_tokens THEN
           [@ EXCEPT !.at = "done", !.token = token,
                     !.result = Some(Err("Invalid or expired token"))]
         ELSE IF ~is_valid(magic_link_tokens[token_hash]) THEN
           [@ EXCEPT !.at = "done", !.token = token,
                     !.magic_token = Some(magic_link_tokens[token_hash]),
                     !.result = Some(Err("Token is expired or already used"))]
         ELSE
           [@ EXCEPT !.at = "mark", !.token = token, !.checked_at = now,
                     !.magic_token = Some(magic_link_tokens[token_hash])]]
  /\ UNCHANGED <<now, config, sessions, served, magic_link_tokens, invocations, db_vars,
                 objects, search_index, leases, api_response,
                 pc, ret, local, call, attempts, successes, next_rid, adds>>

(* verify_magic_link: mark_magic_link_used *)
VerifyMarkUsed(r) ==
  /\ AtVerification(r, "mark")
  /\ mark_magic_link_used(hash_token(verifications[r].token))
  /\ verifications' = [verifications EXCEPT ![r].at = "user"]
  /\ UNCHANGED <<now, config, sessions, served, invocations, db_vars,
                 objects, search_index, leases, api_response,
                 pc, ret, local, call, attempts, successes, next_rid, adds>>

(* verify_magic_link: get_or_create_user, whose queries may fail *)
VerifyGetUser(r) ==
  /\ AtVerification(r, "user")
  /\ \E query_fails \in BOOLEAN :
       verifications' = [verifications EXCEPT ![r] =
         IF query_fails
         THEN [@ EXCEPT !.at = "done", !.result = Some(Err("Failed to get user"))]
         ELSE [@ EXCEPT !.at = "session"]]
  /\ UNCHANGED <<now, config, sessions, served, magic_link_tokens, invocations, db_vars,
                 objects, search_index, leases, api_response,
                 pc, ret, local, call, attempts, successes, next_rid, adds>>

(* verify_magic_link: create_user_session and the Ok it returns *)
VerifyCreateSession(r) ==
  /\ AtVerification(r, "session")
  /\ LET magic_token == Unwrap(verifications[r].magic_token)
         user_id == get_user_by_email(magic_token.email)
         session_tenant == IF IsSome(magic_token.tenant_id)
                           THEN Unwrap(magic_token.tenant_id)
                           ELSE config.default_tenant_id
         session_token == generate_token(r)
         expires_at == now + session_max_age_days * 24 * 60
     IN /\ create_session(hash_token(session_token), user_id, session_tenant, expires_at)
        /\ verifications' = [verifications EXCEPT ![r] =
             [@ EXCEPT !.at = "done",
                       !.session_hash = Some(hash_token(session_token)),
                       !.result = Some(Ok(<<session_token, user_id, session_tenant>>))]]
  /\ UNCHANGED <<now, config, served, magic_link_tokens, invocations, db_vars,
                 objects, search_index, leases, api_response,
                 pc, ret, local, call, attempts, successes, next_rid, adds>>

InitMagicLink ==
  /\ now = 0
  /\ config = [environment |-> "dev", has_storage |-> TRUE, has_search |-> TRUE,
               has_auth |-> TRUE, default_tenant_id |-> "tenant_a"]
  /\ queue = [k \in Keyspaces |-> {}]
  /\ crawled_pages = [k \in Keyspaces |-> {}]
  /\ crawl_errors = [k \in Keyspaces |-> {}]
  /\ crawl_stats = [k \in Keyspaces |->
                      [d \in Domains |-> [pages_crawled |-> 0, pages_failed |-> 0]]]
  /\ allowed_domains = [k \in Keyspaces |-> {}]
  /\ settings = [k \in Keyspaces |-> None]
  /\ objects = {}
  /\ search_index = {}
  /\ leases = {}
  /\ api_response = None
  /\ pc = [w \in Workers |-> "start"]
  /\ ret = [w \in Workers |-> "none"]
  /\ local = [w \in Workers |-> NoLocal]
  /\ call = [w \in Workers |-> NoCall]
  /\ attempts = [i \in {} |-> 0]
  /\ successes = [i \in {} |-> 0]
  /\ next_rid = 1
  /\ adds = 0
  /\ sessions = NoSessions
  /\ magic_link_tokens = StoredMagicLinkTokens
  /\ verifications = NoVerifications
  /\ served = None
  /\ invocations = <<>>

NextMagicLink ==
  \/ Tick
  \/ \E r \in Requests : VerifyGetToken(r)
  \/ \E r \in Requests : VerifyMarkUsed(r)
  \/ \E r \in Requests : VerifyGetUser(r)
  \/ \E r \in Requests : VerifyCreateSession(r)

SpecMagicLink == InitMagicLink /\ [][NextMagicLink]_vars

----------------------------------------------------------------------------
(* Properties *)

(* The error kinds handle_crawl_failure retries, as crawl_errors names them *)
RetryableKinds ==
  {"fetch_error", "storage_error", "database_error", "search_index_error", "unknown"}

(* C1: once process_next_entry has returned for the row E it took, no row  *)
(* with E's key (priority, scheduled_at, url) is in the queue; the only    *)
(* row for E.url the call inserted is the retry row; and a row that was    *)
(* taken is never in the queue again for get_next_queue_entry to return    *)
(* (it is there only until the call that took it deletes it).              *)
C1_TakenRowLeavesQueue ==
  LET w == Scheduler IN
  /\ Done(w) =>
       /\ \A r \in queue[K(w)] : QueueKey(r) # QueueKey(Taken(w))
       /\ \A i \in call[w].inserted :
            i.row.url = Taken(w).url =>
              /\ i.kind = "retry"
              /\ call[w].retry = Some(i.row)
  /\ \A r \in queue[K(w)] :
       r.rid \in leases => pc[w] = "lease" /\ Entry(w) = r

(* a call that took a row has returned with no retry row while another    *)
(* row is still waiting in the queue                                       *)
C1_Witness ==
  /\ Done(Scheduler)
  /\ Did(Scheduler, "lease")
  /\ ~IsSome(call[Scheduler].retry)
  /\ Taken(Scheduler).rid \in leases
  /\ queue[K(Scheduler)] # {}

(* C2: when a call fails with a retryable kind, it inserts a retry row if  *)
(* and only if the row it took has attempt_count < 5; at attempt_count = 5 *)
(* (the sixth attempt) the CrawlError row is written and no row is         *)
(* inserted.                                                               *)
C2_RetryIffBelowLimit ==
  LET w == Scheduler IN
  (Done(w) /\ IsSome(call[w].error_row)
     /\ ErrorRow(w).error_type \in RetryableKinds) =>
    /\ ErrorRow(w) \in crawl_errors[K(w)]
    /\ IsSome(call[w].retry) <=> Taken(w).attempt_count < 5
    /\ IsSome(call[w].retry) => RetryRow(w) \in queue[K(w)]
    /\ ~IsSome(call[w].retry) => call[w].inserted = {}

(* the sixth attempt of a row (attempt_count = 5) failed with a           *)
(* retryable kind and left the queue empty                                 *)
C2_Witness ==
  /\ Done(Scheduler)
  /\ IsSome(call[Scheduler].error_row)
  /\ ErrorRow(Scheduler).error_type \in RetryableKinds
  /\ ErrorRow(Scheduler).attempt_count = 6
  /\ Taken(Scheduler).attempt_count = 5
  /\ ~IsSome(call[Scheduler].retry)
  /\ queue[K(Scheduler)] = {}

(* C3 as stated: a row admitted with attempt_count = 0 whose processing    *)
(* always fails with a retryable error goes through at most 5 processing   *)
(* attempts.                                                               *)
C3_AtMostFiveAttempts ==
  \A o \in DOMAIN attempts : attempts[o] <= 5

(* C3 amended: such a row goes through at most 6 processing attempts, the  *)
(* first one and 5 retries, and after the sixth no row for it is left.     *)
C3_AtMostSixAttempts ==
  /\ \A o \in DOMAIN attempts : attempts[o] <= 6
  /\ \A o \in DOMAIN attempts :
       (attempts[o] = 6 /\ pc[Scheduler] \in {"start", "sleep", "get"}) =>
         ~\E r \in queue[K(Scheduler)] : r.origin = o

(* an admitted row has been through its sixth attempt and the call is over *)
C3_Witness ==
  \E o \in DOMAIN attempts :
    /\ attempts[o] = 6
    /\ pc[Scheduler] = "sleep"
    /\ queue[K(Scheduler)] = {}

(* C4: the retry row keeps url, domain and created_at of the row that      *)
(* failed, has priority and attempt_count one higher, and its              *)
(* last_attempt_at is the time requeue_with_retry ran.                     *)
C4_RetryRowFields ==
  LET w == Scheduler IN
  (Done(w) /\ IsSome(call[w].retry)) =>
    /\ RetryRow(w).url = Taken(w).url
    /\ RetryRow(w).domain = Taken(w).domain
    /\ RetryRow(w).priority = Taken(w).priority + 1
    /\ RetryRow(w).attempt_count = Taken(w).attempt_count + 1
    /\ RetryRow(w).created_at = Taken(w).created_at
    /\ RetryRow(w).last_attempt_at = Some(now)
    /\ RetryRow(w) \in queue[K(w)]

(* a retry row of a retry row: written after the clock moved, for a row    *)
(* created before it                                                       *)
C4_Witness ==
  /\ Done(Scheduler)
  /\ IsSome(call[Scheduler].retry)
  /\ Taken(Scheduler).attempt_count >= 1
  /\ RetryRow(Scheduler).created_at < now
  /\ RetryRow(Scheduler).last_attempt_at = Some(now)

(* C5 as stated: the retry row R written for the row E has                 *)
(* R.scheduled_at >= E.scheduled_at + 2^E.attempt_count minutes, also when *)
(* E is itself a retry row the worker picked up.                           *)
C5_RetryAfterBackoffOfRow ==
  LET w == Scheduler IN
  (Done(w) /\ IsSome(call[w].retry)) =>
    RetryRow(w).scheduled_at >=
      Taken(w).scheduled_at + pow2(Taken(w).attempt_count)

(* a retry row was taken before it was due, failed again, and its own      *)
(* retry row is scheduled earlier than the row's time plus its backoff     *)
C5_Witness ==
  /\ Done(Scheduler)
  /\ IsSome(call[Scheduler].retry)
  /\ Taken(Scheduler).attempt_count >= 1
  /\ Taken(Scheduler).scheduled_at > now
  /\ RetryRow(Scheduler).scheduled_at = now + pow2(Taken(Scheduler).attempt_count)
  /\ RetryRow(Scheduler).scheduled_at <
       Taken(Scheduler).scheduled_at + pow2(Taken(Scheduler).attempt_count)

(* C6: a failure classified robots_disallowed or invalid_url is terminal:  *)
(* the CrawlError row is written, no retry row (no row at all) is          *)
(* inserted whatever the attempt count, nothing is uploaded and no         *)
(* CrawledPage row is written by that call.                                *)
C6_TerminalKinds ==
  LET w == Scheduler IN
  (Done(w) /\ IsSome(call[w].error_row)
     /\ ErrorRow(w).error_type \in {"robots_disallowed", "invalid_url"}) =>
    /\ ErrorRow(w) \in crawl_errors[K(w)]
    /\ ~IsSome(call[w].retry)
    /\ call[w].inserted = {}
    /\ ~Did(w, "retry_row")
    /\ ~Did(w, "upload")
    /\ ~Did(w, "page_write")
    /\ \A r \in queue[K(w)] : r.origin # Taken(w).origin

(* robots.txt disallowed a row in its second attempt or later *)
C6_Witness ==
  /\ Done(Scheduler)
  /\ IsSome(call[Scheduler].error_row)
  /\ ErrorRow(Scheduler).error_type = "robots_disallowed"
  /\ Did(Scheduler, "robots_get")
  /\ Taken(Scheduler).attempt_count \in 1..4

(* C7 as stated: for a row whose URL does not parse the fetcher sends no   *)
(* request and the failure is recorded with error_type invalid_url.        *)
C7_UnparsableIsInvalidUrl ==
  LET w == Scheduler IN
  (Done(w) /\ ~parse_ok(Taken(w).url)) =>
    /\ ~Did(w, "robots_get")
    /\ ~Did(w, "page_get")
    /\ IsSome(call[w].error_row)
    /\ ErrorRow(w).error_type = "invalid_url"

(* the row with the unparsable URL was processed with no request sent and  *)
(* its failure was recorded as robots_disallowed                           *)
C7_Witness ==
  /\ Done(Scheduler)
  /\ ~parse_ok(Taken(Scheduler).url)
  /\ ~Did(Scheduler, "robots_get")
  /\ ~Did(Scheduler, "page_get")
  /\ IsSome(call[Scheduler].error_row)
  /\ ErrorRow(Scheduler).error_type = "robots_disallowed"
  /\ ErrorRow(Scheduler) \in crawl_errors[K(Scheduler)]

(* The stage a request or write of a call belongs to (0: none) *)
StageOf(event) ==
  CASE event \in {"robots_get", "page_get"} -> 1
    [] event = "upload" -> 2
    [] event \in {"page_write", "stats"} -> 3
    [] event = "index" -> 4
    [] event \in {"discover", "link_insert"} -> 5
    [] OTHER -> 0

(* C8: within one call the stages run in the order Fetch, Store, Record,   *)
(* Index, Discover, and a classified failure ends them: no CrawledPage row *)
(* is written unless the upload succeeded, the search adapter is not       *)
(* called unless the CrawledPage upsert succeeded, and discovery does not  *)
(* run unless indexing succeeded or was skipped.                           *)
C8_StagesInOrder ==
  LET w == Scheduler
      t == call[w].trace
  IN
  /\ \A i, j \in DOMAIN t :
       (i < j /\ StageOf(t[i]) > 0 /\ StageOf(t[j]) > 0) =>
         StageOf(t[i]) <= StageOf(t[j])
  /\ \A i, j \in DOMAIN t : (i < j /\ t[i] = "error_row") => t[j] = "retry_row"
  /\ IsSome(local[w].failure) =>
       pc[w] \in {"log_error", "log_stats", "requeue", "returned"}
  /\ Did(w, "page_write") =>
       /\ Did(w, "upload")
       /\ IsSome(local[w].failure) \/
            \E o \in objects : Some(o.storage_id) = Unwrap(local[w].page).storage_id
  /\ Did(w, "index") => Did(w, "page_write") /\ Did(w, "stats")
  /\ (Did(w, "discover") \/ Did(w, "link_insert")) =>
       /\ Did(w, "stats")
       /\ Unwrap(local[w].page) \in crawled_pages[K(w)]
       /\ Did(w, "index") => indexed_document(w) \in search_index

(* a call went through all five stages and enqueued a link *)
C8_Witness ==
  /\ Done(Scheduler)
  /\ Did(Scheduler, "page_get")
  /\ Did(Scheduler, "upload")
  /\ Did(Scheduler, "page_write")
  /\ Did(Scheduler, "index")
  /\ Did(Scheduler, "link_insert")

(* The pages of the model whose meta robots tag or X-Robots-Tag header     *)
(* says noindex, and those that say nofollow                               *)
NoindexPage(result) ==
  \/ result.content = Some(DocNoindex)
  \/ result.x_robots_tag \in {Some(S_noindex), Some(S_noindex_nofollow)}

NofollowPage(result) ==
  \/ result.content = Some(DocNofollow)
  \/ result.x_robots_tag \in {Some(S_nofollow), Some(S_noindex_nofollow)}

(* the page the call fetched, while the call has not failed *)
Fetched(w) ==
  IF IsSome(local[w].result) /\ IsSome(Unwrap(local[w].result).content)
    THEN local[w].result ELSE None

(* C9: for a fetched page with noindex (meta tag or header) the search     *)
(* adapter is never called; a call that does not fail still uploads the    *)
(* body and writes the CrawledPage row, and runs discovery unless the page *)
(* also says nofollow.                                                     *)
C9_NoindexSkipsSearch ==
  LET w == Scheduler IN
  (IsSome(Fetched(w)) /\ NoindexPage(Unwrap(Fetched(w)))) =>
    /\ pc[w] # "index"
    /\ ~Did(w, "index")
    /\ Done(w) =>
         /\ Did(w, "upload")
         /\ \E o \in objects :
              /\ Some(o.body) = Unwrap(Fetched(w)).content
              /\ Some(o.storage_id) = Unwrap(local[w].page).storage_id
         /\ Did(w, "page_write")
         /\ Unwrap(local[w].page) \in crawled_pages[K(w)]
         /\ Did(w, "discover") <=> ~NofollowPage(Unwrap(Fetched(w)))

(* a page with X-Robots-Tag: noindex was stored, recorded and its links    *)
(* enqueued, with a search client configured                               *)
C9_Witness ==
  /\ Done(Scheduler)
  /\ config.has_search
  /\ IsSome(Fetched(Scheduler))
  /\ Unwrap(Fetched(Scheduler)).x_robots_tag = Some(S_noindex)
  /\ Did(Scheduler, "page_write")
  /\ Did(Scheduler, "link_insert")

(* C10: for a fetched page with nofollow (meta tag or header) the call     *)
(* inserts no queue row discovered from the page.                          *)
C10_NofollowEnqueuesNothing ==
  LET w == Scheduler IN
  (IsSome(Fetched(w)) /\ NofollowPage(Unwrap(Fetched(w)))) =>
    /\ pc[w] \notin {"count", "allow", "exists", "insert"}
    /\ ~Did(w, "discover")
    /\ ~Did(w, "link_insert")
    /\ call[w].inserted = {}

(* a page whose meta robots tag says nofollow, and which links to a page   *)
(* of an allowed domain, went through storing, recording and indexing      *)
C10_Witness ==
  /\ Done(Scheduler)
  /\ IsSome(Fetched(Scheduler))
  /\ Unwrap(Fetched(Scheduler)).content = Some(DocNofollow)
  /\ Did(Scheduler, "page_write")
  /\ Did(Scheduler, "index")

(* C11: a queue row that enqueue_link writes for a discovered link is for  *)
(* a host that is in the allowed_domains table of the tenant when the row  *)
(* is written, whatever the admin API does to the table meanwhile          *)
C11_DiscoveredRowIsAllowed ==
  [][(pc[Scheduler] = "insert" /\ pc'[Scheduler] # "insert")
       => is_domain_allowed(allowed_domains[K(Scheduler)], Link(Scheduler).host)]_vars

(* the successful processings of a URL so far, as the history counts them *)
SuccessCount(k, url) ==
  IF <<k, url>> \in DOMAIN successes THEN successes[<<k, url>>] ELSE 0

(* C12: between two calls of process_next_entry, crawled_pages holds at    *)
(* most one row per (domain, url_path), and the crawl_count of a row is    *)
(* the number of processings of its URL that completed successfully        *)
C12_CrawlCountIsSuccesses ==
  (\A w \in Workers : BetweenCalls(w)) =>
    \A k \in Keyspaces : \A p \in crawled_pages[k] :
      /\ \A r \in crawled_pages[k] : PageKey(r) = PageKey(p) => r = p
      /\ p.crawl_count = SuccessCount(k, p.url)

(* C13: no step lowers the crawl_count of a crawled_pages row or changes   *)
(* its created_at, whatever the lookup of the prior row returned           *)
C13_CountAndCreatedAtKept ==
  [][\A k \in Keyspaces : \A p \in crawled_pages[k] : \A q \in crawled_pages'[k] :
       PageKey(q) = PageKey(p) =>
         /\ q.crawl_count >= p.crawl_count
         /\ q.created_at = p.created_at]_vars

(* C14: a call of process_next_entry that finds crawling disabled returns  *)
(* false and leaves the queue and every other table, the object store and  *)
(* the search index as they were, takes no row and makes no request; a     *)
(* POST /queue/add served while crawling is disabled still adds its row    *)
C14_DisabledHaltsConsumptionOnly ==
  [][/\ (pc[Scheduler] = "start" /\ pc'[Scheduler] # "start"
           /\ ~is_crawling_enabled(K(Scheduler)))
          => /\ pc'[Scheduler] = "returned"
             /\ ret'[Scheduler] = "false"
             /\ call'[Scheduler] = NoCall
             /\ UNCHANGED <<db_vars, objects, search_index, leases, attempts>>
     /\ (adds' # adds /\ ~is_crawling_enabled("tenant_a")
           /\ Unwrap(api_response').status = 200)
          => \E r \in queue'["tenant_a"] :
               r.rid = next_rid /\ r \notin queue["tenant_a"]]_vars

C14_Witness ==
  /\ ~is_crawling_enabled(K(Scheduler))
  /\ pc[Scheduler] = "returned"
  /\ ret[Scheduler] = "false"
  /\ \E r \in queue["tenant_a"] : r.rid > 0
  /\ \E r \in queue["tenant_a"] : r.rid = 0

(* the call wrote the crawled_pages row and its pages_crawled increment failed *)
PagesCrawledIncrementFailed(w) ==
  Done(w) /\ Did(w, "page_write") /\ ~Did(w, "stats")

(* C15: a call whose crawled_pages row was written and whose pages_crawled *)
(* increment failed ends as a successful processing, with no CrawlError    *)
(* row and no retry row; and the step that increments pages_failed leads   *)
(* to the requeue exactly when should_retry says so, whether the increment *)
(* was applied or failed                                                   *)
C15_StatsFailureNotSurfaced ==
  /\ [](PagesCrawledIncrementFailed(Scheduler) =>
          /\ Succeeded(Scheduler)
          /\ ~IsSome(call[Scheduler].error_row)
          /\ ~IsSome(call[Scheduler].retry))
  /\ [][(pc[Scheduler] = "log_stats" /\ pc'[Scheduler] # "log_stats") =>
          (pc'[Scheduler] = "requeue") =
            should_retry(Unwrap(local[Scheduler].failure).error_type,
                         Entry(Scheduler))]_vars

(* the second half of C15 alone *)
C15_Witness ==
  /\ Done(Scheduler)
  /\ IsSome(call[Scheduler].retry)
  /\ crawl_stats[K(Scheduler)]["a.test"].pages_failed = 0

(* C16: POST /queue/add answers 400 to a URL that does not parse or has no *)
(* host and 403 to a URL whose host is not in allowed_domains, and writes  *)
(* nothing in both cases; to a URL whose host is allowed it answers 200    *)
(* and writes one row, with attempt_count 0, the priority of the request   *)
(* (1 when the request has none) and scheduled_at = created_at             *)
C16_QueueAddResponses ==
  [][adds' # adds =>
       LET response == Unwrap(api_response')
           url == response.request.url
           priority == response.request.priority
       IN
       IF ~parse_ok(url) THEN response.status = 400 /\ queue' = queue
       ELSE IF ~IsSome(host_str(url)) THEN response.status = 400 /\ queue' = queue
       ELSE IF Unwrap(host_str(url)) \notin allowed_domains["tenant_a"]
         THEN response.status = 403 /\ queue' = queue
       ELSE
         /\ response.status = 200
         /\ queue'["tenant_b"] = queue["tenant_b"]
         /\ \E r \in queue'["tenant_a"] :
              /\ r.rid = next_rid
              /\ r.url = url
              /\ r.attempt_count = 0
              /\ r.priority = (IF IsSome(priority) THEN Unwrap(priority) ELSE 1)
              /\ r.scheduled_at = r.created_at
              /\ queue'["tenant_a"] \ {r} \subseteq queue["tenant_a"]
              /\ \A e \in queue["tenant_a"] :
                   QueueKey(e) # QueueKey(r) => e \in queue'["tenant_a"]]_vars

C16_Witness ==
  /\ IsSome(api_response)
  /\ Unwrap(api_response).status = 200
  /\ ~IsSome(Unwrap(api_response).request.priority)
  /\ \E r \in queue["tenant_a"] : r.rid = 1 /\ r.priority = 1 /\ r.attempt_count = 0

(* C17: a request to a handler that takes the TenantDb extractor gets the  *)
(* base client in single-tenant mode; in multi-tenant mode it is answered  *)
(* 503 when no auth service is configured, 401 when it has no session      *)
(* cookie or its session is not stored or has expired, and every other     *)
(* request gets a client on the keyspace named by the tenant_id of its     *)
(* session                                                                 *)
C17_TenantDbResolution ==
  [][(adds' # adds /\ Unwrap(served').route \in TenantDbRoutes) =>
       LET response == Unwrap(served')
           cookie == response.cookie
       IN
       IF config.deployment_mode = "single_tenant" THEN
         response.keyspace = Some(BaseClient.keyspace)
       ELSE IF ~config.has_auth THEN
         response.status = 503 /\ response.keyspace = None
       ELSE IF ~IsSome(cookie) THEN
         response.status = 401 /\ response.keyspace = None
       ELSE IF hash_token(Unwrap(cookie)) \notin DOMAIN sessions THEN
         response.status = 401 /\ response.keyspace = None
       ELSE IF sessions[hash_token(Unwrap(cookie))].expires_at < now THEN
         response.status = 401 /\ response.keyspace = None
       ELSE
         response.keyspace = Some(sessions[hash_token(Unwrap(cookie))].tenant_id)]_vars

(* a request with the session of a user who left the tenant was answered 500 *)
C17_Witness ==
  /\ IsSome(served)
  /\ Unwrap(served).route \in TenantDbRoutes
  /\ Unwrap(served).cookie = Some("tok_gone")
  /\ Unwrap(served).status = 500
  /\ hash_token("tok_gone") \in DOMAIN sessions

(* the request carries the cookie of a session that is stored and has not expired *)
HasLiveSession(cookie) ==
  /\ IsSome(cookie)
  /\ hash_token(Unwrap(cookie)) \in DOMAIN sessions
  /\ ~(sessions[hash_token(Unwrap(cookie))].expires_at < now)

(* C18: in multi-tenant mode a request without a live session to any route *)
(* that reads or writes tenant data (every route but /version) is answered *)
(* 401 or 503, is given no client, gets no data in its response and leaves *)
(* every table as it was                                                   *)
C18_TenantRoutesNeedSession ==
  [][(/\ adds' # adds
      /\ config.deployment_mode = "multi_tenant"
      /\ Unwrap(served').route \in Routes \ {"version"}
      /\ ~HasLiveSession(Unwrap(served').cookie))
       => /\ Unwrap(served').status \in {401, 503}
          /\ Unwrap(served').keyspace = None
          /\ Unwrap(served').body = {}
          /\ UNCHANGED db_vars]_vars

(* POST /search without a cookie was answered with the documents of both tenants *)
C18_Witness ==
  /\ IsSome(served)
  /\ config.deployment_mode = "multi_tenant"
  /\ Unwrap(served).route = "search"
  /\ Unwrap(served).cookie = None
  /\ Unwrap(served).status = 200
  /\ \E d \in Unwrap(served).body : d.tenant_id = Some("tenant_a")
  /\ \E d \in Unwrap(served).body : d.tenant_id = Some("tenant_b")

(* C19: a step of the scheduler bound to a keyspace leaves the queue,      *)
(* crawled_pages, crawl_errors, crawl_stats, allowed_domains and settings  *)
(* of every other keyspace unchanged; what it reads is of its own          *)
(* keyspace: it goes on to the queue exactly when its own crawling_enabled *)
(* says so, takes a row of its own queue and lets a link through its own   *)
(* allow-list only; and with_keyspace gives a client on the named keyspace *)
(* and the same session                                                    *)
C19_KeyspaceIsolation ==
  /\ [](\A k \in Keyspaces :
          /\ with_keyspace(BaseClient, k).keyspace = k
          /\ with_keyspace(BaseClient, k).session = BaseClient.session)
  /\ [][pc'[Scheduler] # pc[Scheduler] =>
          LET A == WorkerKeyspace[Scheduler] IN
          /\ \A B \in Keyspaces \ {A} :
               /\ queue'[B] = queue[B]
               /\ crawled_pages'[B] = crawled_pages[B]
               /\ crawl_errors'[B] = crawl_errors[B]
               /\ crawl_stats'[B] = crawl_stats[B]
               /\ allowed_domains'[B] = allowed_domains[B]
               /\ settings'[B] = settings[B]
          /\ pc[Scheduler] = "start" =>
               (pc'[Scheduler] = "get") =
                 (IF IsSome(settings[A]) THEN Unwrap(settings[A]) = "true"
                  ELSE config.environment = "dev")
          /\ pc'[Scheduler] = "lease" => Unwrap(call'[Scheduler].entry) \in queue[A]
          /\ (pc[Scheduler] = "allow" /\ pc'[Scheduler] = "exists") =>
               Head(local[Scheduler].links).host \in allowed_domains[A]]_vars

(* the scheduler of tenant_a has recorded a page and enqueued a link while *)
(* tenant_b holds its own row, allow-list and setting                      *)
C19_Witness ==
  /\ Done(Scheduler)
  /\ Did(Scheduler, "link_insert")
  /\ crawled_pages["tenant_a"] # {}
  /\ crawled_pages["tenant_b"] = {}
  /\ queue["tenant_b"] = {SeedOther}
  /\ allowed_domains["tenant_b"] = {"b.test"}

C21_RobotsFailureIsPermissive ==
  LET w == Scheduler IN
  Did(w, "robots_get") =>
    /\ Did(w, "page_get")
    /\ IsSome(local[w].failure) =>
         Unwrap(local[w].failure).error_type # "RobotsDisallowed"

(* C22: a non-2xx response or a network error on the GET of the target URL *)
(* is a fetch error: the call writes a CrawlError row of the fetch kind,   *)
(* uploads no body, writes no CrawledPage row, and inserts the retry row   *)
(* if and only if the row it took has attempt_count < 5.                   *)
C22_FailedGetIsFetchError ==
  LET w == Scheduler IN
  (Done(w) /\ Did(w, "page_get")) =>
    /\ IsSome(call[w].error_row)
    /\ ErrorRow(w).error_type = "fetch_error"
    /\ ErrorRow(w) \in crawl_errors[K(w)]
    /\ ~Did(w, "upload")
    /\ ~Did(w, "page_write")
    /\ IsSome(call[w].retry) <=> Taken(w).attempt_count < MAX_RETRY_ATTEMPTS

(* C23: the object store stage is required. A call that leaves the stage   *)
(* has uploaded the body or fails with the storage error kind, and with no *)
(* storage client nothing is ever uploaded; a call that uploaded nothing   *)
(* writes no CrawledPage row, does not call the search adapter and         *)
(* enqueues no link; and a call that failed with the storage kind inserts  *)
(* the retry row if and only if the row it took has attempt_count < 5.     *)
C23_StorageIsRequired ==
  /\ [](/\ ~config.has_storage => ~Did(Scheduler, "upload")
        /\ ~Did(Scheduler, "upload") =>
             /\ ~Did(Scheduler, "page_write")
             /\ ~Did(Scheduler, "index")
             /\ ~Did(Scheduler, "discover")
             /\ ~Did(Scheduler, "link_insert")
        /\ (Done(Scheduler) /\ IsSome(call[Scheduler].error_row)
              /\ ErrorRow(Scheduler).error_type = "storage_error") =>
             /\ ~Did(Scheduler, "upload")
             /\ ErrorRow(Scheduler) \in crawl_errors[K(Scheduler)]
             /\ IsSome(call[Scheduler].retry) <=> Taken(Scheduler).attempt_count < MAX_RETRY_ATTEMPTS
             /\ IsSome(call[Scheduler].retry) => RetryRow(Scheduler) \in queue[K(Scheduler)]
             /\ \A i \in call[Scheduler].inserted : i.kind = "retry")
  /\ [][(pc[Scheduler] = "store" /\ pc'[Scheduler] # "store") =>
          \/ /\ config.has_storage
             /\ call'[Scheduler].trace = call[Scheduler].trace \o <<"upload">>
             /\ pc'[Scheduler] = "lookup"
          \/ /\ pc'[Scheduler] = "log_error"
             /\ Unwrap(local'[Scheduler].failure).error_type = "StorageError"
             /\ objects' = objects]_vars

(* with no storage client configured a fetched page failed with the        *)
(* storage kind and was requeued                                           *)
C23_Witness ==
  /\ Done(Scheduler)
  /\ ~config.has_storage
  /\ Did(Scheduler, "page_get")
  /\ IsSome(call[Scheduler].error_row)
  /\ ErrorRow(Scheduler).error_type = "storage_error"
  /\ IsSome(call[Scheduler].retry)
  /\ crawled_pages[K(Scheduler)] = {}

(* C24: storage round trip. Every upload_content(B) that returned          *)
(* (storage_id, compression) left one object under storage_id, with the    *)
(* extension of compression; every later get_content(storage_id,           *)
(* compression) returned exactly B, for both compressions; and compression *)
(* is gzip exactly when compression is enabled and B is longer than the    *)
(* configured minimum.                                                     *)
C24_StorageRoundTrip ==
  \A i \in DOMAIN invocations :
    LET up == invocations[i] IN
    (up.op = "upload_content" /\ up.result.ok) =>
      LET storage_id == up.result.value[1]
          compression == up.result.value[2]
      IN
      /\ compression = "Gzip" <=>
           (config.compress_content /\ Len(up.content) > config.compress_min_size)
      /\ {o.key : o \in {x \in objects : x.key[1] = storage_id}}
           = {<<storage_id, IF compression = "Gzip" THEN "html.gz" ELSE "html">>}
      /\ get_content(storage_id, compression) = Ok(up.content)
      /\ \A j \in DOMAIN invocations :
           LET get == invocations[j] IN
           (j > i /\ get.op = "get_content" /\ get.storage_id = storage_id
              /\ get.compression_type = compression) =>
             get.result = Ok(up.content)

(* a content with a run of equal bytes was uploaded gzipped and read back  *)
C24_Witness ==
  /\ Len(invocations) = 2
  /\ invocations[1].op = "upload_content"
  /\ invocations[1].content = <<"a", "a">>
  /\ invocations[1].result = Ok(<<1, "Gzip">>)
  /\ invocations[2].op = "get_content"
  /\ invocations[2].result = Ok(<<"a", "a">>)
  /\ \E o \in objects : o.data # <<"a", "a">>

(* what a set of tokens asks for *)
SaysNoindex(tokens) == tokens \cap {"noindex", "none"} # {}

SaysNofollow(tokens) == tokens \cap {"nofollow", "NOFOLLOW", "none"} # {}

(* the tokens of a meta tag or header that may be missing *)
TokensOf(o) == IF IsSome(o) THEN Unwrap(o) ELSE {}

(* C25: the effective directives are the union of the directives of the    *)
(* meta tag and of the X-Robots-Tag header: noindex if either says noindex *)
(* or none, nofollow if either says nofollow or none; a missing header or  *)
(* meta tag contributes nothing; and merge is commutative and idempotent.  *)
C25_DirectivesAreUnion ==
  /\ \A i \in DOMAIN invocations :
       LET c == invocations[i] IN
       c.op = "get_robots_directives" =>
         /\ c.result.noindex = (c.meta_directives.noindex \/ c.header_directives.noindex)
         /\ c.result.nofollow = (c.meta_directives.nofollow \/ c.header_directives.nofollow)
         /\ c.result.noindex = (SaysNoindex(TokensOf(c.meta)) \/ SaysNoindex(TokensOf(c.header)))
         /\ c.result.nofollow = (SaysNofollow(TokensOf(c.meta)) \/ SaysNofollow(TokensOf(c.header)))
         /\ ~IsSome(c.header) => c.result = c.meta_directives
         /\ ~IsSome(c.meta) => c.result = c.header_directives
         /\ merge(c.meta_directives, c.header_directives)
              = merge(c.header_directives, c.meta_directives)
         /\ merge(c.result, c.result) = c.result
         /\ merge(c.result, c.header_directives) = c.result
  /\ \A a, b \in [noindex : BOOLEAN, nofollow : BOOLEAN] :
       /\ merge(a, b) = merge(b, a)
       /\ merge(a, a) = a

(* a meta tag that says noindex and a header that says nofollow gave both  *)
C25_Witness ==
  /\ invocations # <<>>
  /\ invocations[1].op = "get_robots_directives"
  /\ invocations[1].meta = Some({"noindex"})
  /\ invocations[1].header = Some({"NOFOLLOW", "index, follow"})
  /\ invocations[1].result = RobotsMetaDirectives(TRUE, TRUE)

(* C26: every queue row the Discover stage inserts for a link found on the *)
(* page of the row P the call took has priority = P.priority,              *)
(* attempt_count = 0, no last_attempt_at, scheduled_at = created_at = the  *)
(* time of the insert, and the host of the link as domain.                 *)
C26_DiscoveredRowFields ==
  [][\A i \in call'[Scheduler].inserted \ call[Scheduler].inserted :
       i.kind = "discover" =>
         /\ pc[Scheduler] = "insert"
         /\ i.row.url = Link(Scheduler)
         /\ i.row.priority = Taken(Scheduler).priority
         /\ i.row.attempt_count = 0
         /\ i.row.last_attempt_at = None
         /\ i.row.scheduled_at = now'
         /\ i.row.created_at = now'
         /\ Some(i.row.domain) = host_str(i.row.url)
         /\ i.row \in queue'[K(Scheduler)]]_vars

(* the link /q of the page of a retry row (priority 2) was enqueued after  *)
(* the clock moved                                                         *)
C26_Witness ==
  /\ Done(Scheduler)
  /\ Taken(Scheduler).attempt_count = 1
  /\ Taken(Scheduler).priority = 2
  /\ \E i \in call[Scheduler].inserted :
       /\ i.kind = "discover"
       /\ i.row.url = UrlA_q
       /\ i.row.domain = "a.test"
       /\ i.row.priority = 2
       /\ i.row.attempt_count = 0
       /\ i.row.last_attempt_at = None
       /\ i.row.scheduled_at = 1
       /\ i.row.created_at = 1
       /\ i.row.scheduled_at > Taken(Scheduler).created_at

(* C27: the Discover stage never inserts a queue row for a link whose      *)
(* (host, path) has a CrawledPage row when crawled_page_exists is asked:   *)
(* such a link is dropped at the check; no row a call inserted for a link  *)
(* has a CrawledPage row in that call; and the row the call took, whose    *)
(* page links to itself, is not enqueued again by its own processing.      *)
C27_CrawledLinkNotEnqueued ==
  /\ [](\A i \in call[Scheduler].inserted :
          i.kind = "discover" =>
            /\ ~crawled_page_exists(crawled_pages[K(Scheduler)],
                                    i.row.url.host, i.row.url.path)
            /\ <<i.row.url.host, i.row.url.path>>
                 # <<Taken(Scheduler).url.host, Taken(Scheduler).url.path>>)
  /\ [][(pc[Scheduler] = "exists"
          /\ crawled_page_exists(crawled_pages[K(Scheduler)],
                                 Link(Scheduler).host, Link(Scheduler).path)) =>
         /\ pc'[Scheduler] # "insert"
         /\ queue' = queue
         /\ call'[Scheduler].inserted = call[Scheduler].inserted]_vars

(* the page of http://a.test/p, which links to itself and to /q, was       *)
(* processed: /q got a row, /p got none                                    *)
C27_Witness ==
  /\ Succeeded(Scheduler)
  /\ Taken(Scheduler).url = UrlA_p
  /\ Unwrap(local[Scheduler].result).content = Some(DocPlain)
  /\ crawled_page_exists(crawled_pages[K(Scheduler)], "a.test", "/p")
  /\ \E i \in call[Scheduler].inserted : i.kind = "discover" /\ i.row.url = UrlA_q
  /\ \A r \in queue[K(Scheduler)] : r.url # UrlA_p

(* the queries of the Discover stage that failed in the call *)
DiscoverErrors == {"count_error", "allow_error", "exists_error", "insert_error"}

(* C28: failures inside the Discover stage never fail the pipeline. A call *)
(* that reached the stage ends as a successful processing, with no         *)
(* CrawlError row and no retry row, whatever failed in it; and after a     *)
(* failure on one link the loop goes on with the remaining links: it       *)
(* returns only when no link is left.                                      *)
C28_DiscoverFailuresAreSwallowed ==
  /\ [](Did(Scheduler, "discover") =>
          /\ ~IsSome(local[Scheduler].failure)
          /\ ~IsSome(call[Scheduler].error_row)
          /\ ~IsSome(call[Scheduler].retry)
          /\ pc[Scheduler] \notin {"log_error", "log_stats", "requeue"}
          /\ Done(Scheduler) => (Succeeded(Scheduler) /\ ret[Scheduler] = "true"))
  /\ [][(pc[Scheduler] \in {"allow", "exists", "insert"}
          /\ pc'[Scheduler] \notin {"allow", "exists", "insert"}) =>
         /\ pc'[Scheduler] = "returned"
         /\ skip_unparsed(Tail(local[Scheduler].links)) = <<>>]_vars
  /\ [][(pc[Scheduler] \in {"allow", "exists", "insert"}
          /\ Len(call'[Scheduler].trace) > Len(call[Scheduler].trace)
          /\ call'[Scheduler].trace[Len(call'[Scheduler].trace)] \in DiscoverErrors) =>
         /\ local'[Scheduler].links = skip_unparsed(Tail(local[Scheduler].links))
         /\ local'[Scheduler].links # <<>> => pc'[Scheduler] = "allow"]_vars

(* the allow-list check of one link failed, a later link was enqueued, and *)
(* the call ended as a success                                             *)
C28_Witness ==
  /\ Succeeded(Scheduler)
  /\ ret[Scheduler] = "true"
  /\ \E i, j \in DOMAIN call[Scheduler].trace :
       /\ i < j
       /\ call[Scheduler].trace[i] \in DiscoverErrors
       /\ call[Scheduler].trace[j] = "link_insert"
  /\ ~IsSome(call[Scheduler].error_row)
  /\ ~IsSome(call[Scheduler].retry)

(* C29: the scheduler loop sleeps poll_interval exactly after an iteration *)
(* that found crawling disabled, found the queue empty, or ended with an   *)
(* unhandled error; after an iteration that took an entry and processed    *)
(* it, with success or with a classified failure, it calls                 *)
(* process_next_entry again at once; and the loop has no exit: from the    *)
(* sleep and from every return it goes back to the start.                  *)
C29_SleepExactlyWhenIdleOrError ==
  /\ [](pc[Scheduler] = "returned" =>
          /\ ret[Scheduler] \in {"true", "false", "err"}
          /\ ret[Scheduler] = "err" <=> Did(Scheduler, "query_error")
          /\ ret[Scheduler] = "false" <=>
               /\ call[Scheduler] = NoCall
               /\ ~is_crawling_enabled(K(Scheduler)) \/ queue[K(Scheduler)] = {}
          /\ ret[Scheduler] = "true" <=>
               /\ Did(Scheduler, "lease")
               /\ ~Did(Scheduler, "query_error")
               /\ IsSome(local[Scheduler].failure) => IsSome(call[Scheduler].error_row))
  /\ [][(pc[Scheduler] = "returned" /\ pc'[Scheduler] # "returned") =>
         /\ pc'[Scheduler] \in {"start", "sleep"}
         /\ pc'[Scheduler] = "sleep" <=> ret[Scheduler] \in {"false", "err"}
         /\ pc'[Scheduler] = "start" <=> ret[Scheduler] = "true"]_vars
  /\ [][(pc[Scheduler] = "sleep" /\ pc'[Scheduler] # "sleep") =>
         pc'[Scheduler] = "start"]_vars

(* the loop sleeps after the delete of the row it had read failed *)
C29_Witness ==
  /\ pc[Scheduler] = "sleep"
  /\ ret[Scheduler] = "err"
  /\ leases # {}
  /\ queue[K(Scheduler)] # {}

(* C30: once main has started the queue processing, the schedulers it      *)
(* spawned are one per tenant keyspace, each bound to a client for its     *)
(* keyspace: in multi-tenant mode one for each keyspace                    *)
(* list_tenant_keyspaces returns, in single-tenant mode exactly one, for   *)
(* the configured keyspace, and none when the agent mode is manager.       *)
C30_OneSchedulerPerTenantKeyspace ==
  invocations # <<>> =>
    LET spawned == invocations[1].spawned
        bound == {spawned[i].db_client : i \in DOMAIN spawned}
        expected == IF config.agent_mode = "manager" THEN {}
                    ELSE IF config.deployment_mode = "multi_tenant"
                           THEN list_tenant_keyspaces(invocations[1].tenants)
                           ELSE {config.keyspace}
    IN /\ bound = expected
       /\ Len(spawned) = Cardinality(expected)

(* The calls of set_crawling_enabled on keyspace k before call j *)
SetsBefore(k, j) ==
  {i \in 1..(j - 1) : /\ invocations[i].op = "set_crawling_enabled"
                       /\ invocations[i].keyspace = k}

(* C31: is_crawling_enabled on a tenant returns what the last              *)
(* set_crawling_enabled on that tenant stored, whatever was set on other   *)
(* tenants since; with no set so far it returns true iff the stored value  *)
(* is the string "true", and with nothing stored it returns true exactly   *)
(* when ENVIRONMENT is dev.                                                *)
C31_SettingsGate ==
  \A j \in DOMAIN invocations :
    invocations[j].op = "is_crawling_enabled" =>
      LET k == invocations[j].keyspace
          sets == SetsBefore(k, j)
          last == CHOOSE i \in sets : \A i2 \in sets : i2 <= i
          found == config.stored[k]
      IN IF sets # {} THEN invocations[j].result = invocations[last].enabled
         ELSE IF found = None THEN invocations[j].result = (config.environment = "dev")
         ELSE invocations[j].result = (found = Some("true"))

(* tenant_a reads false after tenant_a was set to false and tenant_b was   *)
(* found with "true" stored *)
C31_Witness ==
  /\ Len(invocations) = 2
  /\ invocations[1] = [op |-> "set_crawling_enabled", keyspace |-> "tenant_a",
                        enabled |-> FALSE]
  /\ invocations[2] = [op |-> "is_crawling_enabled", keyspace |-> "tenant_a",
                        result |-> FALSE]
  /\ config.stored["tenant_a"] = None
  /\ config.stored["tenant_b"] = Some("true")
  /\ config.environment = "dev"

C33_RetryRowTakenWhenDue ==
  \A w \in Workers :
    (IsSome(local[w].entry) /\ Entry(w).attempt_count > 0) =>
      Entry(w).scheduled_at <= now

(* C34: a call of process_next_entry that ended in a classified failure of *)
(* the entry E handed exactly one row to log_crawl_error, with E's url,    *)
(* E.attempt_count + 1, the name of the error type and the host of E.url   *)
(* (E.domain when the url has no host or does not parse); a call that      *)
(* succeeded handed none; and the retry row is attempted exactly when the  *)
(* error type is retryable and E.attempt_count < 5, whether or not the     *)
(* row was written.                                                        *)
C34_OneErrorRowPerFailure ==
  Done(Scheduler) =>
    IF IsSome(local[Scheduler].failure)
      THEN /\ Len(call[Scheduler].logged) = 1
           /\ LET row == call[Scheduler].logged[1]
                  E == Taken(Scheduler)
                  kind == Unwrap(local[Scheduler].failure).error_type
              IN /\ row.url = E.url
                 /\ row.attempt_count = E.attempt_count + 1
                 /\ row.error_type = to_string(kind)
                 /\ row.error_type \in RetryableKinds \cup {"robots_disallowed", "invalid_url"}
                 /\ row.domain = IF E.url.scheme = "" \/ E.url.host = ""
                                   THEN E.domain ELSE E.url.host
                 /\ IsSome(call[Scheduler].error_row) =>
                      /\ ErrorRow(Scheduler) = row
                      /\ row \in crawl_errors[K(Scheduler)]
                 /\ Did(Scheduler, "error_row") \/ Did(Scheduler, "error_row_failed")
                 /\ (Did(Scheduler, "retry_row") \/ Did(Scheduler, "retry_failed")) <=>
                      /\ row.error_type \in RetryableKinds
                      /\ E.attempt_count < MAX_RETRY_ATTEMPTS
      ELSE call[Scheduler].logged = <<>>

(* the insert of the CrawlError row failed and the retry row was written *)
C34_Witness ==
  /\ Done(Scheduler)
  /\ Did(Scheduler, "error_row_failed")
  /\ Len(call[Scheduler].logged) = 1
  /\ crawl_errors[K(Scheduler)] = {}
  /\ IsSome(call[Scheduler].retry)
  /\ RetryRow(Scheduler) \in queue[K(Scheduler)]

(* C35: when a call of process_next_entry that deleted the entry E returns, *)
(* a CrawledPage row for E.url was written in the call, or a CrawlError     *)
(* row for E.url was written in it, or a retry row for E.url is in the      *)
(* queue.                                                                   *)
C35_NoEntrySilentlyLost ==
  (Done(Scheduler) /\ Did(Scheduler, "lease")) =>
    \/ Did(Scheduler, "page_write")
    \/ /\ IsSome(call[Scheduler].error_row)
       /\ ErrorRow(Scheduler).url = Taken(Scheduler).url
    \/ \E r \in queue[K(Scheduler)] :
         /\ r.url = Taken(Scheduler).url
         /\ call[Scheduler].retry = Some(r)

(* C36: with two workers on one keyspace, the queue never holds two retry  *)
(* rows for the same attempt of a URL (same url, same attempt_count), and  *)
(* never more rows for a URL than the one it started with.                 *)
C36_OneRetryRowPerAttempt ==
  /\ \A r1, r2 \in queue["tenant_a"] :
       (r1.url = r2.url /\ r1.attempt_count = r2.attempt_count) =>
         QueueKey(r1) = QueueKey(r2)
  /\ \A r1, r2 \in queue["tenant_a"] : r1.url = r2.url => r1 = r2

(* C37: every row of crawled_pages has http_status 200 (never 403 or 500), *)
(* robots_allowed true, a storage_id under which the object store holds a  *)
(* body whose hash is the row's content_hash, no error_message, and        *)
(* next_crawl_at 24 hours after last_crawled_at.                           *)
C37_PageRowsAreSuccesses ==
  \A k \in Keyspaces : \A p \in crawled_pages[k] :
    /\ p.http_status = 200
    /\ p.robots_allowed = TRUE
    /\ IsSome(p.storage_id)
    /\ p.error_message = None
    /\ \E o \in objects :
         /\ o.storage_id = Unwrap(p.storage_id)
         /\ p.content_hash = md5_hex(o.body)
    /\ p.next_crawl_at = p.last_crawled_at + 24 * 60

(* the call wrote the page row of the entry it took, at time 1 *)
C37_Witness ==
  /\ Done(Scheduler)
  /\ Did(Scheduler, "page_write")
  /\ \E p \in crawled_pages[K(Scheduler)] :
       /\ p.url = Taken(Scheduler).url
       /\ p.last_crawled_at = 1
       /\ p.next_crawl_at = 1441

(* C38: a row the Discover stage inserted is the only row of the queue for *)
(* its URL: no other pending row for that URL was there at the insert.     *)
C38_DiscoverInsertsNoSecondRow ==
  \A w \in Workers : \A i \in call[w].inserted :
    (i.kind = "discover" /\ i.row \in queue[K(w)]) =>
      \A r \in queue[K(w)] : r.url = i.row.url => r = i.row

(* C39: with crawling enabled, a fair worker and no producer, every row of *)
(* the queue carries at most 5 attempts, each call that fails on a row     *)
(* with attempt_count 5 leaves no row for it, and the queue eventually     *)
(* becomes empty and stays empty, whatever fails at each attempt.          *)
C39_RetriesTerminate ==
  /\ [](\A r \in queue["tenant_a"] : r.attempt_count <= MAX_RETRY_ATTEMPTS)
  /\ <>[](queue["tenant_a"] = {})

(* the sixth attempt of a row failed and the queue is empty *)
C39_Witness ==
  /\ Done(Scheduler)
  /\ IsSome(local[Scheduler].failure)
  /\ Taken(Scheduler).attempt_count = MAX_RETRY_ATTEMPTS
  /\ Taken(Scheduler).origin = 0
  /\ queue["tenant_a"] = {}

(* The requests whose verification of a token created a session *)
SessionsCreatedFor(token) ==
  {r \in Requests : /\ verifications[r].token = token
                    /\ IsSome(verifications[r].session_hash)
                    /\ Unwrap(verifications[r].session_hash) \in DOMAIN sessions}

(* A session exists only for a stored token that was unexpired and unused  *)
(* when checked, and that is marked used by now                            *)
SessionOnlyForValidMarkedToken ==
  \A r \in Requests :
    IsSome(verifications[r].session_hash) =>
      /\ IsSome(verifications[r].magic_token)
      /\ ~Unwrap(verifications[r].magic_token).used
      /\ ~(Unwrap(verifications[r].magic_token).expires_at < verifications[r].checked_at)
      /\ magic_link_tokens[hash_token(verifications[r].token)].used

(* C40: a magic link token is single use: verify_magic_link creates a      *)
(* session only for a stored token that was unexpired and not yet used     *)
(* when it was checked, the token is marked used by the time the session   *)
(* exists, and over any interleaving of two verifications of the same      *)
(* token at most one session is created.                                   *)
C40_MagicLinkSingleUse ==
  /\ SessionOnlyForValidMarkedToken
  /\ \A token \in MagicTokens : Cardinality(SessionsCreatedFor(token)) <= 1

====
